---- MODULE Spec2Model ----
(***************************************************************************)
(* Streamed chat-response reconciliation and session persistence of the    *)
(* Gyankosh application.                                                   *)
(*                                                                         *)
(*   mode = "excel"    ExcelSearchPanel + useExcelChatSession: one panel,   *)
(*                     its handleSend invocations, handleStopAnalysis, the *)
(*                     auto-save interval and the chat_messages rows.      *)
(*                     "unloaded" after the page's beforeunload event,     *)
(*                     "unmounted" after the panel was unmounted.          *)
(*   mode = "index"    IndexAuthed + useChatSessions: session selection,   *)
(*                     the loadMessages effect and handleSendMessage.      *)
(*   mode = "decoder"  one stream decoder reading a response body in       *)
(*                     chunks (ExcelSearchPanel, TranslateButton,          *)
(*                     ShowSuggestionsButton).                             *)
(***************************************************************************)
EXTENDS Integers, Sequences, FiniteSets, TLC

VARIABLES
    mode,                  \* which component of the application is mounted
    \* ---- useExcelChatSession (src/src/hooks/useExcelChatSession.ts)
    sessionId,             \* useState sessionId
    hookMessages,          \* useState messages (dbMessages in the panel)
    lastSavedContent,      \* useState lastSavedContent
    autoSaveTimerRef,      \* autoSaveTimerRef.current
    pendingAssistantIdRef, \* pendingAssistantIdRef.current
    pendingContentRef,     \* pendingContentRef.current
    timers,                \* interval handles that were set and not cleared
    documentId,            \* the documentId given to the hook (selectedDocId)
    loading,               \* useState loading
    docLoads,              \* loadOrCreateSession invocations that have not returned
    docChanges,            \* changes of documentId so far
    \* ---- ExcelSearchPanel (src/src/components/ExcelSearchPanel.tsx)
    excel,                 \* a workbook is loaded (excel !== null)
    localMessages,
    input,
    isLoading,
    analysisStage,
    abortControllerRef,    \* {} (null) or {p}: the controller made by invocation p
    aborted,               \* controllers whose signal is aborted
    currentAssistantIdRef,
    currentResponseRef,
    pc,                    \* position of each handleSend invocation
    loc,                   \* locals of each handleSend invocation
    stopPc,                \* position of handleStopAnalysis
    stopLoc,               \* locals of forceSaveProgress awaited by the stop
    \* ---- backing store and environment
    store,                 \* rows of chat_messages of the session, insertion order
    inflight,              \* auto-save updates issued and not yet answered
    sessionTitle,          \* title column of the session's chat_sessions row
    faults,                \* failed requests so far (store errors, no token, bad responses)
    \* ---- useChatSessions (src/src/hooks/useChatSessions.ts)
    currentSessionId,
    lastSessionKey,        \* localStorage[LAST_SESSION_KEY]
    sessions,              \* useState sessions (ids, newest first)
    \* ---- IndexAuthed (src/unnamed/part_000)
    loadingSessionRef,
    isLoadingMessages,
    chatMessages,          \* useChat().messages, the list shown in the chat area
    videoContext,
    hs,                    \* the handleSendMessage invocation and its locals
    \* ---- backing store and environment of IndexAuthed
    loads,                 \* message selects issued by loadMessages, not yet answered
    durable,               \* chat_messages rows of each session
    dbSessions,            \* ids of the chat_sessions rows
    selects,               \* the session selections made so far
    answered,              \* the loads answered so far and whether they were applied
    toasts,                \* titles of the toasts IndexAuthed has shown
    del,                   \* the deleteSession invocation (useChatSessions.ts:153-168)
    fetch,                 \* the fetchSessions invocations (useChatSessions.ts:37-77)
    dm,                    \* useDirectMessages: list, rows, fetchMessages, INSERT events
    \* ---- a stream decoder and the response body it reads
    decKind,               \* which decoder
    decWhole,              \* the whole text of the response body
    decRest,               \* the part of it not yet delivered
    dec,                   \* buffer, accumulated text, sawDone of the decoder
    decPc,                 \* reading, cancelled or ended
    decReadAfterDone,      \* a chunk was read after [DONE] was processed
    decSplit               \* a chunk has ended inside a line

hookVars  == <<sessionId, hookMessages, lastSavedContent, autoSaveTimerRef,
               pendingAssistantIdRef, pendingContentRef, timers>>
panelVars == <<excel, localMessages, input, isLoading, analysisStage,
               abortControllerRef, aborted, currentAssistantIdRef,
               currentResponseRef, pc, loc, stopPc, stopLoc>>
envVars   == <<store, inflight, sessionTitle>>
excelVars == <<hookVars, panelVars, envVars>>
indexVars == <<currentSessionId, lastSessionKey, sessions, loadingSessionRef,
               isLoadingMessages, chatMessages, videoContext, hs, loads, durable,
               dbSessions, selects, answered, toasts, del>>
decoderVars == <<decKind, decWhole, decRest, dec, decPc, decReadAfterDone, decSplit>>
docVars   == <<documentId, loading, docLoads, docChanges>>

vars == <<mode, faults, excelVars, indexVars, decoderVars, docVars, fetch, dm>>

(***************************************************************************)
(* Bounds of the model.                                                    *)
(***************************************************************************)
MaxSends == 2   \* handleSend invocations explored
MaxDeltas == 2  \* content deltas per response stream
MaxInflight == 1 \* auto-save updates in flight at a time
MaxFaults == 1  \* requests that fail in one run
MaxSelects == 3 \* session selections in IndexAuthed
MaxIndexSends == 1 \* handleSendMessage invocations explored
MaxEvents == 2  \* lines of a response stream
MaxDeletes == 1 \* deleteSession invocations
MaxDocChanges == 3 \* changes of the selected document
MaxFetches == 2 \* fetchSessions invocations: the initial one and auth events
MaxDirect == 2  \* rows inserted into direct_messages

Proc == 1..MaxSends

(***************************************************************************)
(* Values.                                                                 *)
(***************************************************************************)
Null == "null"

\* useExcelChatSession.ts:176 - content of the placeholder row
Placeholder == "..."

\* useExcelChatSession.ts:274 - marker appended by forceSaveProgress
StoppedMarkerSaved == "\n\n(!) *Analysis was stopped. Say \"continue\" to resume.*"

\* ExcelSearchPanel.tsx:168 - marker put in localMessages by handleStopAnalysis
StoppedMarkerLocal == "\n\n(!) *Analysis stopped. Say \"continue\" to resume from here.*"

\* the environment answers a request: ok, or a failure within the fault budget
Answer(ok) ==
    /\ ~ok => faults < MaxFaults
    /\ faults' = IF ok THEN faults ELSE faults + 1

Msg(id, role, content) == [id |-> id, role |-> role, content |-> content]

\* prev.map(m => m.id === id ? { ...m, content } : m)
MapContent(list, id, content) ==
    [i \in DOMAIN list |->
        IF list[i].id = id THEN [list[i] EXCEPT !.content = content] ELSE list[i]]

\* identifiers are unique: the server's ids of the rows inserted for invocation
\* p (kind "user" or "assistant") and the crypto.randomUUID() values made by it
ServerId(p, kind) == "m" \o ToString(p) \o "-" \o kind
RandomUUID(p, kind) == "u" \o ToString(p) \o "-" \o kind
TimerOf(p) == "t" \o ToString(p)

\* the k-th content delta of the response to invocation p
DeltaText(p, k) == "<" \o ToString(p) \o "." \o ToString(k) \o "> "

ExcelQueries == {"sum column B"}

(***************************************************************************)
(* String helpers (JavaScript String.prototype).                           *)
(***************************************************************************)
Min(a, b) == IF a < b THEN a ELSE b
Max(a, b) == IF a > b THEN a ELSE b

CharAt(s, i) == SubSeq(s, i, i)

IsSpace(c) == c \in {" ", "\n", "\t", "\r"}

RECURSIVE TrimStart(_)
TrimStart(s) ==
    IF Len(s) > 0 /\ IsSpace(CharAt(s, 1)) THEN TrimStart(SubSeq(s, 2, Len(s))) ELSE s

RECURSIVE TrimEnd(_)
TrimEnd(s) ==
    IF Len(s) > 0 /\ IsSpace(CharAt(s, Len(s)))
    THEN TrimEnd(SubSeq(s, 1, Len(s) - 1)) ELSE s

\* s.trim()
Trim(s) == TrimEnd(TrimStart(s))

UpperAlphabet == "ABCDEFGHIJKLMNOPQRSTUVWXYZ"
LowerAlphabet == "abcdefghijklmnopqrstuvwxyz"

LowerChar(c) ==
    IF \E i \in 1..Len(UpperAlphabet) : CharAt(UpperAlphabet, i) = c
    THEN CharAt(LowerAlphabet, CHOOSE i \in 1..Len(UpperAlphabet) : CharAt(UpperAlphabet, i) = c)
    ELSE c

RECURSIVE ToLowerCase(_)
ToLowerCase(s) ==
    IF Len(s) = 0 THEN s
    ELSE LowerChar(CharAt(s, 1)) \o ToLowerCase(SubSeq(s, 2, Len(s)))

\* s.includes(kw)
Includes(s, kw) ==
    \E i \in 1..(Len(s) - Len(kw) + 1) : SubSeq(s, i, i + Len(kw) - 1) = kw

\* s.startsWith(prefix)
StartsWith(s, prefix) ==
    Len(s) >= Len(prefix) /\ SubSeq(s, 1, Len(prefix)) = prefix

\* s.slice(start) for a start that may be negative
SliceFrom(s, start) ==
    LET from == IF start < 0 THEN Max(Len(s) + start, 0) ELSE Min(start, Len(s))
    IN  SubSeq(s, from + 1, Len(s))

(***************************************************************************)
(* Resumption policy (useExcelChatSession.ts:289-304) and the query built  *)
(* by handleSend (ExcelSearchPanel.tsx:269-298).                           *)
(***************************************************************************)
MinUsableLength  == 50     \* useExcelChatSession.ts:299
MaxContextLength == 2000   \* useExcelChatSession.ts:302

\* 'jaari' stands for the Devanagari keyword of the source (ASCII only here)
ContinueKeywords ==
    {"continue", "resume", "go on", "keep going", "carry on", "proceed", "jaari"}

ShouldContinue(userQuery) ==
    LET lowerQuery == Trim(ToLowerCase(userQuery))
    IN  \E kw \in ContinueKeywords : Includes(lowerQuery, kw)

\* getContinueContext with slice(contextLength) for slice(-contextLength)
GetContinueContextFromStart(saved) ==
    IF saved = "" \/ Len(saved) < MinUsableLength THEN Null
    ELSE LET contextLength == Min(MaxContextLength, Len(saved))
         IN  SliceFrom(saved, contextLength)

GetContinueContext(saved) ==
    IF saved = "" \/ Len(saved) < MinUsableLength THEN Null
    ELSE LET contextLength == Min(MaxContextLength, Len(saved))
         IN  SliceFrom(saved, 0 - contextLength)

ContinueHead ==
    "The user wants to continue from where the previous analysis left off. Here's the last part of the previous response:\n\n---\n"
ContinueMid ==
    "\n---\n\nPlease continue the analysis from this point. The user said: \""
ContinueTail == "\""

FinalQuery(userQuery, wantsContinue, previousContext) ==
    IF wantsContinue /\ previousContext # Null
    THEN ContinueHead \o previousContext \o ContinueMid \o userQuery \o ContinueTail
    ELSE userQuery

(***************************************************************************)
(* ExcelSearchPanel and useExcelChatSession.                               *)
(***************************************************************************)
InitLoc ==
    [userQuery |-> "", wantsContinue |-> FALSE, previousContext |-> Null,
     finalQuery |-> "", userSave |-> "none", messagesLength |-> 0,
     assistantMsgId |-> Null, localAssistantId |-> Null,
     signal |-> {}, fullResponse |-> "", ndeltas |-> 0, how |-> "",
     finalWrites |-> 0, finalOk |-> FALSE]

\* what handleStopAnalysis found when it was called (assistantId, response) and
\* what the forceSaveProgress it awaits read from the refs (id, content)
InitStopLoc == [assistantId |-> Null, response |-> "", id |-> Null, content |-> ""]

\* the two lists shown one after the other
MessagesConcatenated == hookMessages \o localMessages

\* ExcelSearchPanel.tsx:105-107 - the list shown to the user
Messages == IF Len(hookMessages) > 0 THEN hookMessages ELSE localMessages

\* The panel with a workbook loaded; the session of the document was loaded
\* or created (sessionId set) or that failed (sessionId null).
InitExcel ==
    /\ sessionId \in {Null, "s1"}
    /\ hookMessages = <<>>
    /\ lastSavedContent = ""
    /\ autoSaveTimerRef = Null
    /\ pendingAssistantIdRef = Null
    /\ pendingContentRef = ""
    /\ timers = {}
    /\ excel = TRUE
    /\ localMessages = <<Msg("u0", "assistant", "Loaded: book.xlsx")>>
    /\ input = ""
    /\ isLoading = FALSE
    /\ analysisStage = "preparing"
    /\ abortControllerRef = {}
    /\ aborted = {}
    /\ currentAssistantIdRef = Null
    /\ currentResponseRef = ""
    /\ pc = [p \in Proc |-> "idle"]
    /\ loc = [p \in Proc |-> InitLoc]
    /\ stopPc = "idle"
    /\ stopLoc = InitStopLoc
    /\ store = <<>>
    /\ inflight = {}
    /\ sessionTitle = "Excel: book.xlsx"

\* an event of the mounted ExcelSearchPanel
InExcel == mode = "excel" /\ UNCHANGED <<indexVars, decoderVars, docVars, fetch, dm>>

\* ExcelSearchPanel.tsx:261-284 with saveUserMessage (useExcelChatSession.ts:131-133)
\* up to its first suspension point.  text is what the input box holds when
\* the user presses Enter: what was typed now, or what is still in the box.
SendText(p, text) ==
    /\ InExcel
    /\ UNCHANGED faults
    /\ pc[p] = "idle"
    /\ \A q \in Proc : q < p => pc[q] # "idle"
    /\ ~(Trim(text) = "" \/ ~excel \/ isLoading)
    /\ LET userQuery == Trim(text)
           wantsContinue == ShouldContinue(userQuery)
           previousContext ==
               IF wantsContinue THEN GetContinueContext(lastSavedContent) ELSE Null
           l1 == [loc[p] EXCEPT !.userQuery = userQuery,
                                !.wantsContinue = wantsContinue,
                                !.previousContext = previousContext,
                                !.messagesLength = Len(Messages)]
       IN  /\ abortControllerRef' = {p}
           /\ analysisStage' = "preparing"
           /\ IF sessionId = Null
              THEN \* saveUserMessage returns null at once: local fallback
                   /\ localMessages' =
                        Append(localMessages, Msg(RandomUUID(p, "user"), "user", userQuery))
                   /\ input' = ""
                   /\ isLoading' = TRUE
                   /\ loc' = [loc EXCEPT ![p] = [l1 EXCEPT !.userSave = "skipped"]]
                   /\ pc' = [pc EXCEPT ![p] = "getSession"]
              ELSE \* the insert is issued and awaited
                   /\ loc' = [loc EXCEPT ![p] = [l1 EXCEPT !.userSave = "pending"]]
                   /\ pc' = [pc EXCEPT ![p] = "saveUser"]
                   /\ input' = text
                   /\ UNCHANGED <<localMessages, isLoading>>
    /\ UNCHANGED <<mode, hookVars, excel, aborted, currentAssistantIdRef,
                   currentResponseRef, stopPc, stopLoc, store, inflight, sessionTitle>>

HandleSend(p) == \E text \in ExcelQueries \cup {input} : SendText(p, text)

\* useExcelChatSession.ts:134-160 and ExcelSearchPanel.tsx:277-284
SaveUserDone(p, ok) ==
    /\ InExcel
    /\ Answer(ok)
    /\ pc[p] = "saveUser"
    /\ loc[p].userSave = "pending"
    /\ IF ok
       THEN LET msg == Msg(ServerId(p, "user"), "user", loc[p].userQuery)
            IN  /\ store' = Append(store, msg)
                /\ hookMessages' = Append(hookMessages, msg)
                /\ UNCHANGED localMessages
       ELSE /\ localMessages' =
                 Append(localMessages, Msg(RandomUUID(p, "user"), "user", loc[p].userQuery))
            /\ UNCHANGED <<store, hookMessages>>
    /\ input' = ""
    /\ isLoading' = TRUE
    /\ loc' = [loc EXCEPT ![p].userSave = IF ok THEN "saved" ELSE "failed"]
    /\ pc' = [pc EXCEPT ![p] = "getSession"]
    /\ UNCHANGED <<mode, sessionId, lastSavedContent, autoSaveTimerRef,
                   pendingAssistantIdRef, pendingContentRef, timers, excel,
                   analysisStage, abortControllerRef, aborted, currentAssistantIdRef,
                   currentResponseRef, stopPc, stopLoc, inflight, sessionTitle>>

ErrorText(message) == "Error: " \o message

\* ExcelSearchPanel.tsx:307-330 - after startAssistantMessage returned msgId
\* (null on failure) the fetch is issued with the signal of the controller
\* abortControllerRef holds at that moment.  When a stop has set the ref to
\* null, reading its signal (line 329) throws a TypeError, caught at 420-434.
AfterStart(p, l, msgId, localId, stage) ==
    /\ currentAssistantIdRef' = localId
    /\ currentResponseRef' = ""
    /\ IF abortControllerRef = {}
       THEN /\ localMessages' =
                 Append(Append(localMessages, Msg(localId, "assistant", "")),
                        Msg(RandomUUID(p, "error"), "assistant",
                            ErrorText("Cannot read properties of null")))
            /\ isLoading' = FALSE
            /\ abortControllerRef' = {}
            /\ analysisStage' = "preparing"
            /\ loc' = [loc EXCEPT ![p] = [l EXCEPT !.assistantMsgId = msgId,
                                                  !.localAssistantId = localId,
                                                  !.how = "error"]]
            /\ pc' = [pc EXCEPT ![p] = "done"]
       ELSE /\ localMessages' = Append(localMessages, Msg(localId, "assistant", ""))
            /\ analysisStage' = stage
            /\ loc' = [loc EXCEPT ![p] = [l EXCEPT !.assistantMsgId = msgId,
                                                  !.localAssistantId = localId,
                                                  !.signal = abortControllerRef]]
            /\ pc' = [pc EXCEPT ![p] = "fetch"]
            /\ UNCHANGED <<isLoading, abortControllerRef>>

\* the signal given to the fetch of invocation p has been aborted
Aborted(p) == loc[p].signal \cap aborted # {}

\* ExcelSearchPanel.tsx:420-434 - catch of an error that is no AbortError,
\* then the finally block.
CatchError(p, message) ==
    /\ localMessages' =
         Append(localMessages, Msg(RandomUUID(p, "error"), "assistant", ErrorText(message)))
    /\ isLoading' = FALSE
    /\ abortControllerRef' = {}
    /\ analysisStage' = "preparing"
    /\ loc' = [loc EXCEPT ![p].how = "error"]
    /\ pc' = [pc EXCEPT ![p] = "done"]

\* ExcelSearchPanel.tsx:286-306 and useExcelChatSession.ts:167-180
GetSessionDone(p, hasToken) ==
    /\ InExcel
    /\ Answer(hasToken)
    /\ pc[p] = "getSession"
    /\ IF ~hasToken
       THEN /\ CatchError(p, "Not authenticated")
            /\ UNCHANGED <<currentAssistantIdRef, currentResponseRef>>
       ELSE LET l == [loc[p] EXCEPT !.finalQuery =
                        FinalQuery(loc[p].userQuery, loc[p].wantsContinue,
                                   loc[p].previousContext)]
            IN  IF sessionId = Null
                THEN \* startAssistantMessage returns null at once
                     AfterStart(p, l, Null, RandomUUID(p, "assistant"), "requesting")
                ELSE /\ analysisStage' = "requesting"
                     /\ loc' = [loc EXCEPT ![p] = l]
                     /\ pc' = [pc EXCEPT ![p] = "startAssistant"]
                     /\ UNCHANGED <<currentAssistantIdRef, currentResponseRef,
                                    localMessages, isLoading, abortControllerRef>>
    /\ UNCHANGED <<mode, hookVars, excel, input, aborted, stopPc, stopLoc,
                   store, inflight, sessionTitle>>

\* useExcelChatSession.ts:171-217 and ExcelSearchPanel.tsx:306-330
StartAssistantDone(p, ok) ==
    /\ InExcel
    /\ Answer(ok)
    /\ pc[p] = "startAssistant"
    /\ IF ok
       THEN LET id == ServerId(p, "assistant")
            IN  /\ store' = Append(store, Msg(id, "assistant", Placeholder))
                /\ hookMessages' = Append(hookMessages, Msg(id, "assistant", ""))
                /\ pendingAssistantIdRef' = id
                /\ pendingContentRef' = ""
                /\ autoSaveTimerRef' = TimerOf(p)
                /\ timers' = timers \cup {TimerOf(p)}
                /\ AfterStart(p, loc[p], id, id, analysisStage)
       ELSE /\ AfterStart(p, loc[p], Null, RandomUUID(p, "assistant"), analysisStage)
            /\ UNCHANGED <<store, hookMessages, pendingAssistantIdRef,
                           pendingContentRef, autoSaveTimerRef, timers>>
    /\ UNCHANGED <<mode, sessionId, lastSavedContent, excel, input, aborted,
                   stopPc, stopLoc, inflight, sessionTitle>>

\* ExcelSearchPanel.tsx:316-338 - the fetch settles: a response that is ok, a
\* response that is not ok, or a rejection (network error)
FetchDone(p, outcome) ==
    /\ InExcel
    /\ Answer(outcome = "ok")
    /\ pc[p] = "fetch"
    /\ ~Aborted(p)
    /\ IF outcome = "ok"
       THEN /\ pc' = [pc EXCEPT ![p] = "stream"]
            /\ UNCHANGED <<localMessages, isLoading, abortControllerRef,
                           analysisStage, loc>>
       ELSE CatchError(p, IF outcome = "notok" THEN "Failed to get response"
                                               ELSE "Failed to fetch")
    /\ UNCHANGED <<mode, hookVars, excel, input, aborted, currentAssistantIdRef,
                   currentResponseRef, stopPc, stopLoc, store, inflight,
                   sessionTitle>>

\* ExcelSearchPanel.tsx:316-330, 346-347, 420-421, 430-434 - the signal was
\* aborted: fetch or reader.read() rejects with AbortError, the catch returns,
\* the finally block runs.
AbortError(p) ==
    /\ InExcel
    /\ UNCHANGED faults
    /\ pc[p] \in {"fetch", "stream"}
    /\ Aborted(p)
    /\ isLoading' = FALSE
    /\ abortControllerRef' = {}
    /\ analysisStage' = "preparing"
    /\ loc' = [loc EXCEPT ![p].how = "aborted"]
    /\ pc' = [pc EXCEPT ![p] = "done"]
    /\ UNCHANGED <<mode, hookVars, envVars, excel, localMessages, input, aborted,
                   currentAssistantIdRef, currentResponseRef, stopPc, stopLoc>>

\* the newest delta put in front of the text
AccumulateNewestFirst(fullResponse, content) == content \o fullResponse

\* ExcelSearchPanel.tsx:373 - fullResponse += content
Accumulate(fullResponse, content) == fullResponse \o content

\* ExcelSearchPanel.tsx:364-382 and updateAssistantContent
\* (useExcelChatSession.ts:223-228) - one content delta of the stream
ReadDelta(p) ==
    /\ InExcel
    /\ UNCHANGED faults
    /\ pc[p] = "stream"
    /\ ~Aborted(p)
    /\ loc[p].ndeltas < MaxDeltas
    /\ LET content == DeltaText(p, loc[p].ndeltas + 1)
           fullResponse == Accumulate(loc[p].fullResponse, content)
       IN  /\ analysisStage' = "streaming"
           /\ loc' = [loc EXCEPT ![p].fullResponse = fullResponse,
                                 ![p].ndeltas = @ + 1]
           /\ currentResponseRef' = fullResponse
           /\ localMessages' =
                MapContent(localMessages, loc[p].localAssistantId, fullResponse)
           /\ IF loc[p].assistantMsgId # Null
              THEN /\ pendingContentRef' = fullResponse
                   /\ hookMessages' =
                        MapContent(hookMessages, loc[p].assistantMsgId, fullResponse)
              ELSE UNCHANGED <<pendingContentRef, hookMessages>>
    /\ UNCHANGED <<mode, sessionId, lastSavedContent, autoSaveTimerRef,
                   pendingAssistantIdRef, timers, envVars, excel, input, isLoading,
                   abortControllerRef, aborted, currentAssistantIdRef, pc,
                   stopPc, stopLoc>>

\* ExcelSearchPanel.tsx:399-418, 430-434 - the tail of a completed exchange
Completed(p) ==
    /\ sessionTitle' =
         IF loc[p].messagesLength <= 2 /\ sessionId # Null
         THEN "Excel: book.xlsx - " \o
              SubSeq(loc[p].userQuery, 1, Min(30, Len(loc[p].userQuery))) \o "..."
         ELSE sessionTitle
    /\ currentAssistantIdRef' = Null
    /\ currentResponseRef' = ""
    /\ isLoading' = FALSE
    /\ abortControllerRef' = {}
    /\ analysisStage' = "preparing"
    /\ pc' = [pc EXCEPT ![p] = "done"]

\* ExcelSearchPanel.tsx:346-348, 388-397 and finalizeAssistantMessage
\* (useExcelChatSession.ts:233-244) - end of stream: the interval is cleared
\* and the final update is issued and awaited
ReadEnd(p) ==
    /\ InExcel
    /\ UNCHANGED faults
    /\ pc[p] = "stream"
    /\ ~Aborted(p)
    /\ IF loc[p].assistantMsgId # Null
       THEN /\ timers' = timers \ {autoSaveTimerRef}
            /\ autoSaveTimerRef' = Null
            /\ pc' = [pc EXCEPT ![p] = "finalize"]
            /\ loc' = [loc EXCEPT ![p].finalWrites = @ + 1]
            /\ UNCHANGED <<sessionTitle, currentAssistantIdRef, currentResponseRef,
                           isLoading, abortControllerRef, analysisStage>>
       ELSE /\ Completed(p)
            /\ loc' = [loc EXCEPT ![p].how = "completed"]
            /\ UNCHANGED <<timers, autoSaveTimerRef>>
    /\ UNCHANGED <<mode, sessionId, hookMessages, lastSavedContent,
                   pendingAssistantIdRef, pendingContentRef, excel, localMessages,
                   input, aborted, stopPc, stopLoc, store, inflight>>

\* ExcelSearchPanel.tsx:347, 420-434 - reader.read() rejects (connection lost)
StreamError(p) ==
    /\ InExcel
    /\ Answer(FALSE)
    /\ pc[p] = "stream"
    /\ ~Aborted(p)
    /\ CatchError(p, "network error")
    /\ UNCHANGED <<mode, hookVars, excel, input, aborted, currentAssistantIdRef,
                   currentResponseRef, stopPc, stopLoc, store, inflight,
                   sessionTitle>>

\* useExcelChatSession.ts:241-256 and ExcelSearchPanel.tsx:399-434 - the final
\* update is answered (an error is only logged)
FinalizeDone(p, ok) ==
    /\ InExcel
    /\ Answer(ok)
    /\ pc[p] = "finalize"
    /\ LET id == loc[p].assistantMsgId
           finalContent == loc[p].fullResponse
       IN  /\ store' = IF ok THEN MapContent(store, id, finalContent) ELSE store
           /\ lastSavedContent' = finalContent
           /\ pendingAssistantIdRef' = Null
           /\ pendingContentRef' = ""
           /\ hookMessages' = MapContent(hookMessages, id, finalContent)
    /\ Completed(p)
    /\ loc' = [loc EXCEPT ![p].how = "completed", ![p].finalOk = ok]
    /\ UNCHANGED <<mode, sessionId, autoSaveTimerRef, timers, excel, localMessages,
                   input, aborted, stopPc, stopLoc, inflight>>

\* ExcelSearchPanel.tsx:166-178 - the end of handleStopAnalysis.  The updater
\* given to setLocalMessages reads the two refs when React runs it: at the
\* call (eager) or at the next render, after the refs were reset (not eager).
StopTail(withMarker, eager) ==
    /\ localMessages' =
         IF withMarker /\ eager
         THEN MapContent(localMessages, currentAssistantIdRef,
                         currentResponseRef \o StoppedMarkerLocal)
         ELSE localMessages
    /\ isLoading' = FALSE
    /\ analysisStage' = "preparing"
    /\ currentAssistantIdRef' = Null
    /\ currentResponseRef' = ""

\* ExcelSearchPanel.tsx:157-182 with forceSaveProgress
\* (useExcelChatSession.ts:262-275) up to its suspension point.  The Stop
\* button is rendered while isLoading.
HandleStopAnalysis(eager) ==
    /\ InExcel
    /\ UNCHANGED faults
    /\ isLoading
    /\ stopPc = "idle"
    /\ abortControllerRef # {}
    /\ aborted' = aborted \cup abortControllerRef
    /\ abortControllerRef' = {}
    /\ IF currentAssistantIdRef # Null /\ Len(currentResponseRef) > 10
       THEN /\ timers' = timers \ {autoSaveTimerRef}
            /\ autoSaveTimerRef' = Null
            /\ IF pendingAssistantIdRef # Null /\ Len(pendingContentRef) > 3
               THEN /\ stopPc' = "forceSave"
                    /\ stopLoc' = [assistantId |-> currentAssistantIdRef,
                                   response |-> currentResponseRef,
                                   id |-> pendingAssistantIdRef,
                                   content |-> pendingContentRef]
                    /\ UNCHANGED <<pendingAssistantIdRef, pendingContentRef,
                                   localMessages, isLoading, analysisStage,
                                   currentAssistantIdRef, currentResponseRef>>
               ELSE /\ pendingAssistantIdRef' = Null
                    /\ pendingContentRef' = ""
                    /\ StopTail(TRUE, eager)
                    /\ stopLoc' = [assistantId |-> currentAssistantIdRef,
                                   response |-> currentResponseRef,
                                   id |-> Null, content |-> ""]
                    /\ UNCHANGED stopPc
       ELSE /\ StopTail(FALSE, eager)
            /\ stopLoc' = [assistantId |-> currentAssistantIdRef,
                           response |-> currentResponseRef,
                           id |-> Null, content |-> ""]
            /\ UNCHANGED <<timers, autoSaveTimerRef, pendingAssistantIdRef,
                           pendingContentRef, stopPc>>
    /\ UNCHANGED <<mode, sessionId, hookMessages, lastSavedContent, envVars, excel,
                   input, pc, loc>>

\* useExcelChatSession.ts:272-283 and ExcelSearchPanel.tsx:164-180 - the
\* update issued by forceSaveProgress is answered
ForceSaveDone(ok, eager) ==
    /\ InExcel
    /\ Answer(ok)
    /\ stopPc = "forceSave"
    /\ store' = IF ok THEN MapContent(store, stopLoc.id,
                                      stopLoc.content \o StoppedMarkerSaved)
                      ELSE store
    /\ lastSavedContent' = IF ok THEN stopLoc.content ELSE lastSavedContent
    /\ pendingAssistantIdRef' = Null
    /\ pendingContentRef' = ""
    /\ StopTail(TRUE, eager)
    /\ stopPc' = "idle"
    /\ UNCHANGED <<mode, sessionId, hookMessages, autoSaveTimerRef, timers, excel,
                   input, abortControllerRef, aborted, pc, loc, stopLoc, inflight,
                   sessionTitle>>

\* useExcelChatSession.ts:201-208 - a tick of an interval that is still set
\* finds content to save and issues the update without awaiting it
AutoSaveTick ==
    /\ InExcel
    /\ UNCHANGED faults
    /\ timers # {}
    /\ Cardinality(inflight) < MaxInflight
    /\ pendingAssistantIdRef # Null
    /\ Len(pendingContentRef) > 0
    /\ inflight' = inflight \cup
         {[id |-> pendingAssistantIdRef, content |-> pendingContentRef]}
    /\ UNCHANGED <<mode, hookVars, panelVars, store, sessionTitle>>

\* useExcelChatSession.ts:205-213 - an auto-save update reaches the table and
\* its answer reaches the .then callback
AutoSaveDone(ok) ==
    /\ InExcel
    /\ Answer(ok)
    /\ \E w \in inflight :
         /\ inflight' = inflight \ {w}
         /\ store' = IF ok THEN MapContent(store, w.id, w.content) ELSE store
         /\ lastSavedContent' = IF ok THEN w.content ELSE lastSavedContent
    /\ UNCHANGED <<mode, sessionId, hookMessages, autoSaveTimerRef,
                   pendingAssistantIdRef, pendingContentRef, timers, panelVars,
                   sessionTitle>>

\* ExcelSearchPanel.tsx:138-147 with forceSaveProgress
\* (useExcelChatSession.ts:262-275) - the page is unloaded.  The update that
\* forceSaveProgress issues without being awaited reaches the table or not.
HandleBeforeUnload(reached) ==
    /\ mode = "excel"
    /\ mode' = "unloaded"
    /\ IF isLoading /\ Len(currentResponseRef) > 10
       THEN /\ timers' = timers \ {autoSaveTimerRef}
            /\ autoSaveTimerRef' = Null
            /\ IF pendingAssistantIdRef # Null /\ Len(pendingContentRef) > 3
               THEN /\ stopPc' = "forceSave"
                    /\ stopLoc' = [assistantId |-> currentAssistantIdRef,
                                   response |-> currentResponseRef,
                                   id |-> pendingAssistantIdRef,
                                   content |-> pendingContentRef]
                    /\ store' = IF reached
                                THEN MapContent(store, pendingAssistantIdRef,
                                                pendingContentRef \o StoppedMarkerSaved)
                                ELSE store
                    /\ UNCHANGED <<pendingAssistantIdRef, pendingContentRef>>
               ELSE /\ ~reached
                    /\ pendingAssistantIdRef' = Null
                    /\ pendingContentRef' = ""
                    /\ UNCHANGED <<stopPc, stopLoc, store>>
       ELSE /\ ~reached
            /\ UNCHANGED <<timers, autoSaveTimerRef, pendingAssistantIdRef,
                           pendingContentRef, stopPc, stopLoc, store>>
    /\ UNCHANGED <<faults, sessionId, hookMessages, lastSavedContent, excel,
                   localMessages, input, isLoading, analysisStage,
                   abortControllerRef, aborted, currentAssistantIdRef,
                   currentResponseRef, pc, loc, inflight, sessionTitle,
                   indexVars, decoderVars, docVars, fetch, dm>>

\* useExcelChatSession.ts:119-126 - the panel is unmounted: the cleanup of
\* the hook clears the interval held by autoSaveTimerRef and does nothing else
Unmount ==
    /\ mode = "excel"
    /\ mode' = "unmounted"
    /\ timers' = timers \ {autoSaveTimerRef}
    /\ UNCHANGED <<faults, sessionId, hookMessages, lastSavedContent,
                   autoSaveTimerRef, pendingAssistantIdRef, pendingContentRef,
                   panelVars, envVars, indexVars, decoderVars, docVars, fetch, dm>>

NextTeardown ==
    \/ \E reached \in BOOLEAN : HandleBeforeUnload(reached)
    \/ Unmount

NextExcel ==
    \/ \E p \in Proc : HandleSend(p)
    \/ \E p \in Proc, ok \in BOOLEAN : SaveUserDone(p, ok)
    \/ \E p \in Proc, hasToken \in BOOLEAN : GetSessionDone(p, hasToken)
    \/ \E p \in Proc, ok \in BOOLEAN : StartAssistantDone(p, ok)
    \/ \E p \in Proc, outcome \in {"ok", "notok", "neterror"} : FetchDone(p, outcome)
    \/ \E p \in Proc : AbortError(p)
    \/ \E p \in Proc : ReadDelta(p)
    \/ \E p \in Proc : ReadEnd(p)
    \/ \E p \in Proc : StreamError(p)
    \/ \E p \in Proc, ok \in BOOLEAN : FinalizeDone(p, ok)
    \/ \E eager \in BOOLEAN : HandleStopAnalysis(eager)
    \/ \E ok \in BOOLEAN, eager \in BOOLEAN : ForceSaveDone(ok, eager)
    \/ AutoSaveTick
    \/ \E ok \in BOOLEAN : AutoSaveDone(ok)

(***************************************************************************)
(* useExcelChatSession: the effect that loads or creates the session of    *)
(* the selected document.                                                  *)
(***************************************************************************)
Docs == {"A", "B", "C"}

\* the rows of chat_messages with each document_id, oldest first: document A
\* has an exchange whose answer is long enough to continue from, document B
\* has none, document C a question only
DocRows(doc) ==
    IF doc = "A"
    THEN <<Msg("a1", "user", "question A"),
           Msg("a2", "assistant", "answer A: the totals of column B by month are listed below")>>
    ELSE IF doc = "C" THEN <<Msg("c1", "user", "question C")>>
    ELSE <<>>

\* session_id of the rows of a document
DocSession(doc) == "s" \o doc

\* the id of the chat_sessions row inserted by the n-th loadOrCreateSession
CreatedSession(n) == "n" \o ToString(n)

RECURSIVE LastAssistant(_)
\* [...existingMessages].reverse().find(m => m.role === 'assistant')
LastAssistant(rows) ==
    IF Len(rows) = 0 THEN Null
    ELSE IF rows[Len(rows)].role = "assistant" THEN rows[Len(rows)].content
    ELSE LastAssistant(SubSeq(rows, 1, Len(rows) - 1))

\* an event of the hook while documents are selected
InSession ==
    /\ mode = "session"
    /\ UNCHANGED <<mode, autoSaveTimerRef, pendingAssistantIdRef, pendingContentRef,
                   timers, panelVars, envVars, indexVars, decoderVars, fetch, dm>>

\* useExcelChatSession.ts:40-50, 112-116 - documentId changes to d: the
\* cleanup of the previous run of the effect sets its mounted to false, then
\* the effect runs for d
DocumentIdChanged(d) ==
    /\ InSession
    /\ UNCHANGED <<faults, lastSavedContent>>
    /\ docChanges < MaxDocChanges
    /\ d # documentId
    /\ documentId' = d
    /\ docChanges' = docChanges + 1
    /\ LET cleaned == {[l EXCEPT !.mounted = FALSE] : l \in docLoads}
       IN  IF d = Null
           THEN /\ sessionId' = Null
                /\ hookMessages' = <<>>
                /\ docLoads' = cleaned
                /\ UNCHANGED loading
           ELSE /\ loading' = TRUE
                /\ docLoads' = cleaned \cup
                     {[n |-> docChanges + 1, doc |-> d, mounted |-> TRUE, pc |-> "getUser"]}
                /\ UNCHANGED <<sessionId, hookMessages>>

\* useExcelChatSession.ts:107-109 - the finally block of invocation l
LoadReturns(l) ==
    /\ docLoads' = docLoads \ {l}
    /\ loading' = IF l.mounted THEN FALSE ELSE loading

\* useExcelChatSession.ts:52-60 - auth.getUser() is answered
GetUserDone(hasUser) ==
    /\ InSession
    /\ Answer(hasUser)
    /\ \E l \in docLoads :
         /\ l.pc = "getUser"
         /\ IF ~hasUser \/ ~l.mounted
            THEN LoadReturns(l)
            ELSE /\ docLoads' = (docLoads \ {l}) \cup {[l EXCEPT !.pc = "select"]}
                 /\ UNCHANGED loading
    /\ UNCHANGED <<sessionId, hookMessages, lastSavedContent, documentId, docChanges>>

\* useExcelChatSession.ts:56-95 - the select of the rows of the document is
\* answered
SelectRowsDone(ok) ==
    /\ InSession
    /\ Answer(ok)
    /\ \E l \in docLoads :
         /\ l.pc = "select"
         /\ LET existingMessages == DocRows(l.doc)
            IN  IF ~ok
                THEN /\ LoadReturns(l)
                     /\ UNCHANGED <<sessionId, hookMessages, lastSavedContent>>
                ELSE IF Len(existingMessages) > 0
                THEN /\ sessionId' = DocSession(l.doc)
                     /\ hookMessages' = existingMessages
                     /\ lastSavedContent' =
                          IF LastAssistant(existingMessages) # Null
                          THEN LastAssistant(existingMessages) ELSE lastSavedContent
                     /\ LoadReturns(l)
                ELSE /\ docLoads' = (docLoads \ {l}) \cup {[l EXCEPT !.pc = "create"]}
                     /\ UNCHANGED <<sessionId, hookMessages, lastSavedContent, loading>>
    /\ UNCHANGED <<documentId, docChanges>>

\* useExcelChatSession.ts:91-109 - the insert of the new session is answered
CreateSessionRowDone(ok) ==
    /\ InSession
    /\ Answer(ok)
    /\ \E l \in docLoads :
         /\ l.pc = "create"
         /\ IF ok /\ l.mounted
            THEN /\ sessionId' = CreatedSession(l.n)
                 /\ hookMessages' = <<>>
            ELSE UNCHANGED <<sessionId, hookMessages>>
         /\ LoadReturns(l)
    /\ UNCHANGED <<lastSavedContent, documentId, docChanges>>

NextSession ==
    \/ \E d \in Docs \cup {Null} : DocumentIdChanged(d)
    \/ \E hasUser \in BOOLEAN : GetUserDone(hasUser)
    \/ \E ok \in BOOLEAN : SelectRowsDone(ok)
    \/ \E ok \in BOOLEAN : CreateSessionRowDone(ok)

(***************************************************************************)
(* IndexAuthed with useChatSessions: session selection, the loadMessages   *)
(* effect and handleSendMessage.                                           *)
(***************************************************************************)
Sessions == {"A", "B"}

\* the id the server gives to the session created by the k-th handleSendMessage
NewSessionId(k) == "N" \o ToString(k)

AllSessions == Sessions \cup {NewSessionId(k) : k \in 1..MaxIndexSends}

\* the chat_messages rows the two existing sessions start with
InitDurable ==
    [s \in AllSessions |->
        IF s = "A" THEN <<Msg("a1", "user", "question A"), Msg("a2", "assistant", "answer A")>>
        ELSE IF s = "B" THEN <<Msg("b1", "user", "question B"), Msg("b2", "assistant", "answer B")>>
        ELSE <<>>]

InitHs ==
    [pc |-> "idle", n |-> 0, path |-> "", sessionId |-> Null, created |-> FALSE,
     user |-> "unknown", userInsert |-> "none", message |-> "", response |-> ""]

\* no deleteSession has been invoked; currentSessionId is the value the
\* callback closed over (useChatSessions.ts:168)
InitDel == [pc |-> "idle", n |-> 0, id |-> Null, currentSessionId |-> Null,
            ok |-> FALSE]

\* useChatSessions.ts:37-77 and 79-108 - the fetchSessions of the first
\* render, the only one the mount effect ever calls: closure is the
\* currentSessionId it closed over, the id restored at mount; pending holds
\* the invocations that are awaiting getSession or the select.  Here the
\* initial fetch has answered.
FetchAnswered(restored) ==
    [closure |-> restored, n |-> 1, applied |-> 1, loading |-> FALSE, pending |-> {}]

\* IndexAuthed mounted after fetchSessions answered; the session id restored
\* from localStorage (useChatSessions.ts:16-22), if any, is being loaded.
InitIndex ==
    /\ currentSessionId \in {Null, "A"}
    /\ lastSessionKey = currentSessionId
    /\ sessions = <<"A", "B">>
    /\ loadingSessionRef = currentSessionId
    /\ isLoadingMessages = (currentSessionId # Null)
    /\ loads = IF currentSessionId = Null THEN {}
               ELSE {[n |-> 0, session |-> currentSessionId]}
    /\ chatMessages = <<>>
    /\ videoContext = Null
    /\ hs = InitHs
    /\ durable = InitDurable
    /\ dbSessions = Sessions
    /\ selects = <<>>
    /\ answered = {}
    /\ toasts = {}
    /\ del = InitDel
    /\ fetch = FetchAnswered(currentSessionId)

\* an event of the mounted IndexAuthed
InIndex == mode = "index" /\ UNCHANGED <<mode, excelVars, decoderVars, docVars, fetch, dm>>

\* part_000:116-186 up to the select it issues - the effect run for the new
\* value id of currentSessionId; n names the select, msgs is the message list
\* left by the handler that changed the session.
LoadMessagesEffect(id, n, msgs) ==
    IF id = Null
    THEN /\ loadingSessionRef' = Null
         /\ isLoadingMessages' = FALSE
         /\ chatMessages' = <<>>
         /\ videoContext' = Null
         /\ UNCHANGED loads
    ELSE IF loadingSessionRef = id
    THEN /\ chatMessages' = msgs
         /\ UNCHANGED <<loadingSessionRef, isLoadingMessages, loads, videoContext>>
    ELSE /\ loadingSessionRef' = id
         /\ isLoadingMessages' = TRUE
         /\ loads' = loads \cup {[n |-> n, session |-> id]}
         /\ chatMessages' = msgs
         /\ UNCHANGED videoContext

\* setCurrentSessionId that changes the state and leaves the localStorage key
SetCurrentSessionIdStateOnly(id) ==
    /\ currentSessionId' = id
    /\ UNCHANGED lastSessionKey

\* useChatSessions.ts:27-34
SetCurrentSessionId(id) ==
    /\ currentSessionId' = id
    /\ lastSessionKey' = id

\* part_000:929-933 with the effect it triggers
HandleSelectSession ==
    /\ InIndex
    /\ Len(selects) < MaxSelects
    /\ \E i \in DOMAIN sessions :
         LET id == sessions[i]
         IN  /\ id # currentSessionId
             /\ SetCurrentSessionId(id)
             /\ LoadMessagesEffect(id, Len(selects) + 1, chatMessages)
             /\ selects' = Append(selects, id)
    /\ UNCHANGED <<faults, sessions, hs, durable, dbSessions, answered, toasts, del>>

\* part_000:898-903 with the effect it triggers
HandleNewChat ==
    /\ InIndex
    /\ Len(selects) < MaxSelects
    /\ currentSessionId # Null
    /\ SetCurrentSessionId(Null)
    /\ LoadMessagesEffect(Null, Len(selects) + 1, <<>>)
    /\ selects' = Append(selects, Null)
    /\ UNCHANGED <<faults, sessions, hs, durable, dbSessions, answered, toasts, del>>

\* loadMessages without the comparison of loadingSessionRef with the session
\* of the response: every response is applied
LoadMessagesDoneUnchecked(l, ok) ==
    /\ Answer(ok)
    /\ loads' = loads \ {l}
    /\ isLoadingMessages' = FALSE
    /\ loadingSessionRef' = Null
    /\ answered' = answered \cup {[n |-> l.n, applied |-> TRUE]}
    /\ chatMessages' = IF ok THEN durable[l.session] ELSE <<>>

\* part_000:144-182 - the select issued for load l is answered
LoadMessagesDone(l, ok) ==
    /\ Answer(ok)
    /\ loads' = loads \ {l}
    /\ IF loadingSessionRef # l.session
       THEN /\ isLoadingMessages' = FALSE
            /\ answered' = answered \cup {[n |-> l.n, applied |-> FALSE]}
            /\ UNCHANGED <<loadingSessionRef, chatMessages>>
       ELSE /\ isLoadingMessages' = FALSE
            /\ loadingSessionRef' = Null
            /\ answered' = answered \cup {[n |-> l.n, applied |-> TRUE]}
            /\ chatMessages' = IF ok THEN durable[l.session] ELSE <<>>

LoadDone ==
    /\ InIndex
    /\ \E l \in loads, ok \in BOOLEAN : LoadMessagesDone(l, ok)
    /\ UNCHANGED <<currentSessionId, lastSessionKey, sessions, videoContext, hs,
                   durable, dbSessions, selects, toasts, del>>

\* list.filter(s => s.id !== id)
RECURSIVE WithoutSession(_, _)
WithoutSession(list, id) ==
    IF Len(list) = 0 THEN <<>>
    ELSE IF list[1] = id THEN WithoutSession(Tail(list), id)
    ELSE <<list[1]>> \o WithoutSession(Tail(list), id)

\* ChatSidebar.tsx:209-211 and useChatSessions.ts:153-157 - the user has
\* confirmed the deletion of a session of the list; the delete is issued by
\* the deleteSession of the current render
DeleteSession ==
    /\ InIndex
    /\ UNCHANGED faults
    /\ del.pc \in {"idle", "done"}
    /\ del.n < MaxDeletes
    /\ \E i \in DOMAIN sessions :
         del' = [pc |-> "pending", n |-> del.n + 1, id |-> sessions[i],
                 currentSessionId |-> currentSessionId, ok |-> FALSE]
    /\ UNCHANGED <<currentSessionId, lastSessionKey, sessions, loadingSessionRef,
                   isLoadingMessages, chatMessages, videoContext, hs, loads,
                   durable, dbSessions, selects, answered, toasts>>

\* useChatSessions.ts:159-167 - the delete is answered.  The rows of
\* chat_messages go with the session (ON DELETE CASCADE); setting the
\* current session to null runs the loadMessages effect (part_000:116-125)
\* when the value changes.
DeleteSessionDone(ok) ==
    /\ InIndex
    /\ Answer(ok)
    /\ del.pc = "pending"
    /\ del' = [del EXCEPT !.pc = "done", !.ok = ok]
    /\ IF ~ok
       THEN UNCHANGED <<currentSessionId, lastSessionKey, sessions,
                        loadingSessionRef, isLoadingMessages, chatMessages,
                        videoContext, loads, durable, dbSessions>>
       ELSE /\ dbSessions' = dbSessions \ {del.id}
            /\ durable' = [durable EXCEPT ![del.id] = <<>>]
            /\ sessions' = WithoutSession(sessions, del.id)
            /\ IF del.currentSessionId = del.id
               THEN /\ SetCurrentSessionId(Null)
                    /\ IF currentSessionId # Null
                       THEN LoadMessagesEffect(Null, 0, <<>>)
                       ELSE UNCHANGED <<loadingSessionRef, isLoadingMessages,
                                        chatMessages, videoContext, loads>>
               ELSE UNCHANGED <<currentSessionId, lastSessionKey,
                                loadingSessionRef, isLoadingMessages,
                                chatMessages, videoContext, loads>>
    /\ UNCHANGED <<hs, selects, answered, toasts>>

NextDelete ==
    \/ DeleteSession
    \/ \E ok \in BOOLEAN : DeleteSessionDone(ok)

\* ---- fetchSessions (useChatSessions.ts:37-108)

\* an event of the mounted IndexAuthed that concerns fetchSessions
InIndexFetch == mode = "index" /\ UNCHANGED <<mode, excelVars, decoderVars, docVars, dm>>

\* the rows of chat_sessions in the order of the select
\* (useChatSessions.ts:47-50); the runs with fetches create no session
SessionRows(db) == SelectSeq(<<"A", "B">>, LAMBDA id : id \in db)

\* setCurrentSessionId(null) with the loadMessages effect it triggers when
\* the value changes (part_000:116-125)
ClearCurrentSession ==
    /\ SetCurrentSessionId(Null)
    /\ IF currentSessionId # Null
       THEN LoadMessagesEffect(Null, 0, <<>>)
       ELSE UNCHANGED <<loadingSessionRef, isLoadingMessages, chatMessages,
                        videoContext, loads>>

\* useChatSessions.ts:83-89 - onAuthStateChange delivers SIGNED_IN or
\* TOKEN_REFRESHED with a session: the handler registered by the mount
\* effect calls the fetchSessions of the first render
AuthEvent ==
    /\ InIndexFetch
    /\ fetch.n < MaxFetches
    /\ fetch' = [fetch EXCEPT !.n = @ + 1,
                              !.pending = @ \cup {[n |-> fetch.n + 1, pc |-> "getSession"]}]
    /\ UNCHANGED <<faults, indexVars>>

\* useChatSessions.ts:39-44 - getSession is answered
FetchGetSessionDone(hasSession) ==
    /\ InIndexFetch
    /\ Answer(hasSession)
    /\ \E f \in fetch.pending :
         /\ f.pc = "getSession"
         /\ IF hasSession
            THEN /\ fetch' = [fetch EXCEPT !.pending =
                                 (@ \ {f}) \cup {[f EXCEPT !.pc = "select"]}]
                 /\ UNCHANGED sessions
            ELSE /\ fetch' = [fetch EXCEPT !.pending = @ \ {f}, !.loading = FALSE]
                 /\ sessions' = <<>>
    /\ UNCHANGED <<currentSessionId, lastSessionKey, loadingSessionRef,
                   isLoadingMessages, chatMessages, videoContext, hs, loads,
                   durable, dbSessions, selects, answered, toasts, del>>

\* useChatSessions.ts:67-73 - setSessions(data) and the comparison of the
\* list with the currentSessionId the callback closed over
FetchSessionsApply(data) ==
    IF fetch.closure # Null /\ fetch.closure \notin data
    THEN ClearCurrentSession
    ELSE UNCHANGED <<currentSessionId, lastSessionKey, loadingSessionRef,
                     isLoadingMessages, chatMessages, videoContext, loads>>

\* useChatSessions.ts:46-76 - the select of chat_sessions is answered: with
\* the rows, with an authentication error (sign out, 56-61) or with another
\* error (63-64); finally loading is cleared
FetchSelectDone(outcome) ==
    /\ InIndexFetch
    /\ Answer(outcome = "ok")
    /\ \E f \in fetch.pending :
         /\ f.pc = "select"
         /\ fetch' = [fetch EXCEPT !.pending = @ \ {f}, !.loading = FALSE,
                                   !.applied = IF outcome = "ok" THEN @ + 1 ELSE @]
    /\ CASE outcome = "ok" ->
              /\ sessions' = SessionRows(dbSessions)
              /\ FetchSessionsApply(dbSessions)
         [] outcome = "unauthorized" ->
              /\ sessions' = <<>>
              /\ ClearCurrentSession
         [] OTHER ->
              UNCHANGED <<currentSessionId, lastSessionKey, sessions,
                          loadingSessionRef, isLoadingMessages, chatMessages,
                          videoContext, loads>>
    /\ UNCHANGED <<hs, durable, dbSessions, selects, answered, toasts, del>>

NextFetch ==
    \/ AuthEvent
    \/ \E hasSession \in BOOLEAN : FetchGetSessionDone(hasSession)
    \/ \E outcome \in {"ok", "error", "unauthorized"} : FetchSelectDone(outcome)

NextLoad ==
    \/ HandleSelectSession
    \/ HandleNewChat
    \/ LoadDone

\* ---- handleSendMessage (part_000:395-841)

VideoMarker == "[video]"
VideoResponse == "## " \o VideoMarker \o " Video Analysis"
VideoError == "(x) Could not analyze this video. Failed to analyze video"

IndexMessage(path, n) ==
    IF path = "youtube" THEN "https://youtu.be/v" \o ToString(n)
    ELSE "question " \o ToString(n)

\* the content of the user row written by each path (part_000:433, 600, 685)
UserRowContent(h) ==
    IF h.path = "search" THEN "!google " \o h.message ELSE h.message

Last(list) == list[Len(list)]

\* part_000:441-457 updateProgress
UpdateProgress(list, id, step) ==
    IF Len(list) > 0 /\ Last(list).role = "assistant"
                     /\ Includes(Last(list).content, VideoMarker)
    THEN [list EXCEPT ![Len(list)].content = step]
    ELSE Append(list, Msg(id, "assistant", step))

\* part_000:521-533 and 562-574
ReplaceLastAssistant(list, content) ==
    IF Len(list) > 0 /\ Last(list).role = "assistant"
    THEN [list EXCEPT ![Len(list)].content = content]
    ELSE list

\* part_000:626-640 - the chunk callback of webSearch
ShowSearchResult(list, id, searchResult) ==
    IF Len(list) > 0 /\ Last(list).role = "assistant"
    THEN [list EXCEPT ![Len(list)].content = searchResult]
    ELSE Append(list, Msg(id, "assistant", searchResult))

\* the toast of the catch block of each path (part_000:555-581 shows the
\* failure in the message list instead, 650-656, 818-825)
CatchToast(path) ==
    IF path = "search" THEN {"Search Failed"}
    ELSE IF path = "regular" THEN {"Error"}
    ELSE {}

\* the insert of the user row issued without await: the handler goes on to
\* the request at once
UnawaitedUserInsert(h) == [h EXCEPT !.pc = "stream", !.userInsert = "pending"]

\* the insert of the user row is issued and the handler waits for its answer
\* (part_000:433 / 600 / 685: await supabase.from('chat_messages').insert)
AwaitUserInsert(h) == [h EXCEPT !.pc = "insertUser", !.userInsert = "pending"]

\* what the handler shows before the insert: the YouTube path appends the
\* user's message first (part_000:422-430)
ShownBeforeInsert(h, list) ==
    IF h.path = "youtube"
    THEN Append(list, Msg("i" \o ToString(h.n) \o "-user", "user", h.message))
    ELSE list

\* part_000:395-419, 586-597, 662-682 up to the first await
HandleSendMessage(path) ==
    /\ InIndex
    /\ UNCHANGED faults
    /\ hs.pc \in {"idle", "done"}
    /\ hs.n < MaxIndexSends
    /\ LET h == [InitHs EXCEPT !.n = hs.n + 1, !.path = path,
                               !.message = IndexMessage(path, hs.n + 1),
                               !.sessionId = currentSessionId]
       IN  /\ videoContext' = IF path = "youtube" THEN Null ELSE videoContext
           /\ IF currentSessionId = Null
              THEN /\ hs' = [h EXCEPT !.pc = "createSession"]
                   /\ UNCHANGED chatMessages
              ELSE IF path = "regular" /\ Len(chatMessages) = 0
              THEN /\ hs' = [h EXCEPT !.pc = "updateTitle"]
                   /\ UNCHANGED chatMessages
              ELSE /\ hs' = AwaitUserInsert(h)
                   /\ chatMessages' = ShownBeforeInsert(h, chatMessages)
    /\ UNCHANGED <<currentSessionId, lastSessionKey, sessions, loadingSessionRef,
                   isLoadingMessages, loads, durable, dbSessions, selects, answered,
                   toasts, del>>

\* useChatSessions.ts:111-133 answered, then part_000:417-438 / 595-605 /
\* 674-690 and the effect triggered by the new currentSessionId
\* createSession settles: auth.getUser gave no user ("nouser"), the insert
\* of the session row gave an error ("error"), or the row was created ("ok")
CreateSessionDone(outcome) ==
    /\ InIndex
    /\ Answer(outcome = "ok")
    /\ hs.pc = "createSession"
    /\ IF outcome # "ok"
       THEN /\ hs' = [hs EXCEPT !.pc = "done",
                                 !.user = IF outcome = "nouser" THEN "none" ELSE "found"]
            /\ UNCHANGED <<currentSessionId, lastSessionKey, sessions,
                           loadingSessionRef, isLoadingMessages, chatMessages,
                           videoContext, loads, dbSessions>>
       ELSE LET id == NewSessionId(hs.n)
                h == [hs EXCEPT !.sessionId = id, !.created = TRUE, !.user = "found"]
            IN  /\ dbSessions' = dbSessions \cup {id}
                /\ sessions' = <<id>> \o sessions
                /\ SetCurrentSessionId(id)
                /\ LoadMessagesEffect(id, MaxSelects + hs.n,
                                      ShownBeforeInsert(h, chatMessages))
                /\ hs' = AwaitUserInsert(h)
    /\ UNCHANGED <<durable, selects, answered, toasts, del>>

\* useChatSessions.ts:136-150 answered (an error is only logged), then
\* part_000:685
UpdateTitleDone(ok) ==
    /\ InIndex
    /\ Answer(ok)
    /\ hs.pc = "updateTitle"
    /\ hs' = AwaitUserInsert(hs)
    /\ UNCHANGED <<currentSessionId, lastSessionKey, sessions, loadingSessionRef,
                   isLoadingMessages, chatMessages, videoContext, loads, durable,
                   dbSessions, selects, answered, toasts, del>>

\* the insert of the user row settles: a row ("ok"), an error result that
\* is ignored or only logged ("error"), or a rejection ("throw");
\* part_000:433-467, 600-616, 685-694
InsertUserDone(outcome) ==
    /\ InIndex
    /\ Answer(outcome = "ok")
    /\ hs.pc = "insertUser"
    /\ durable' = IF outcome = "ok"
                  THEN [durable EXCEPT ![hs.sessionId] =
                          Append(@, Msg("d" \o ToString(hs.n) \o "-user", "user",
                                        UserRowContent(hs)))]
                  ELSE durable
    /\ toasts' = IF outcome = "throw" THEN toasts \cup CatchToast(hs.path) ELSE toasts
    /\ IF outcome = "throw"
       THEN /\ hs' = [hs EXCEPT !.pc = "done", !.userInsert = "error"]
            /\ UNCHANGED chatMessages
       ELSE /\ hs' = [hs EXCEPT !.pc = "stream", !.userInsert = outcome]
            /\ chatMessages' =
                 IF hs.path = "youtube"
                 THEN UpdateProgress(chatMessages, "i" \o ToString(hs.n) \o "-assistant",
                                     VideoMarker \o " Step 4/4: Analyzing content with AI...")
                 ELSE IF hs.path = "search"
                 THEN Append(chatMessages,
                             Msg("i" \o ToString(hs.n) \o "-user", "user",
                                 "Searching google: " \o hs.message))
                 ELSE chatMessages
    /\ UNCHANGED <<currentSessionId, lastSessionKey, sessions, loadingSessionRef,
                   isLoadingMessages, videoContext, loads, dbSessions, selects,
                   answered, del>>

\* the request of the exchange settles: transcribe-youtube (part_000:469-534,
\* 555-574), webSearch (part_000:619-658) or useChat's sendMessage
\* (part_000:697-807), whose effect on the message list is outside the sources
StreamDone(ok) ==
    /\ InIndex
    /\ Answer(ok)
    /\ hs.pc = "stream"
    /\ toasts' = IF ok THEN toasts ELSE toasts \cup CatchToast(hs.path)
    /\ IF hs.path = "youtube"
       THEN LET content == IF ok THEN VideoResponse ELSE VideoError
            IN  /\ chatMessages' = ReplaceLastAssistant(chatMessages, content)
                /\ hs' = [hs EXCEPT !.pc = "insertAssistant", !.response = content]
       ELSE IF hs.path = "search"
       THEN IF ok
            THEN /\ chatMessages' =
                      ShowSearchResult(chatMessages, "i" \o ToString(hs.n) \o "-assistant",
                                       "results for " \o hs.message)
                 /\ hs' = [hs EXCEPT !.pc = "insertAssistant",
                                     !.response = "results for " \o hs.message]
            ELSE /\ hs' = [hs EXCEPT !.pc = "done"]
                 /\ UNCHANGED chatMessages
       ELSE /\ hs' = IF ok
                     THEN [hs EXCEPT !.pc = "insertAssistant",
                                     !.response = "answer to " \o hs.message]
                     ELSE [hs EXCEPT !.pc = "done"]
            /\ UNCHANGED chatMessages
    /\ UNCHANGED <<currentSessionId, lastSessionKey, sessions, loadingSessionRef,
                   isLoadingMessages, videoContext, loads, durable, dbSessions,
                   selects, answered, del>>

\* part_000:536-549, 576-581, 644-649, 811-816
InsertAssistantDone(ok) ==
    /\ InIndex
    /\ Answer(ok)
    /\ hs.pc = "insertAssistant"
    /\ durable' = IF ok
                  THEN [durable EXCEPT ![hs.sessionId] =
                          Append(@, Msg("d" \o ToString(hs.n) \o "-assistant",
                                        "assistant", hs.response))]
                  ELSE durable
    /\ videoContext' = IF hs.path = "youtube" /\ hs.response = VideoResponse
                       THEN "video" ELSE videoContext
    /\ toasts' = IF hs.path = "youtube" /\ hs.response = VideoResponse
                  THEN toasts \cup {"Video Analyzed!"} ELSE toasts
    /\ hs' = [hs EXCEPT !.pc = "done"]
    /\ UNCHANGED <<currentSessionId, lastSessionKey, sessions, loadingSessionRef,
                   isLoadingMessages, chatMessages, loads, dbSessions, selects,
                   answered, del>>

NextIndex ==
    \/ NextLoad
    \/ \E path \in {"youtube", "search", "regular"} : HandleSendMessage(path)
    \/ \E outcome \in {"ok", "nouser", "error"} : CreateSessionDone(outcome)
    \/ \E ok \in BOOLEAN : UpdateTitleDone(ok)
    \/ \E outcome \in {"ok", "error", "throw"} : InsertUserDone(outcome)
    \/ \E ok \in BOOLEAN : StreamDone(ok)
    \/ \E ok \in BOOLEAN : InsertAssistantDone(ok)

(***************************************************************************)
(* The stream decoders: ExcelSearchPanel.handleSend (split on newline),    *)
(* TranslateButton.handleTranslate and                                     *)
(* ShowSuggestionsButton.handleFetchSuggestions (indexOf loop).            *)
(***************************************************************************)
DecoderKinds == {"excel", "translate", "suggestions"}

\* the lines a completion stream is made of
LineHi      == "data: {\"choices\":[{\"delta\":{\"content\":\"Hi\"}}]}"
LineB2      == "data: {\"choices\":[{\"delta\":{\"content\":\" B2\"}}]}\r"
LineBlank   == ""
LineComment == ": ping"
LineDone    == "data: [DONE]"
LineFinish  == "data: {\"choices\":[{\"delta\":{},\"finish_reason\":\"stop\"}]}"
LineBad     == "data: {\"choices\":[{\"del"

EventLines == {LineHi, LineB2, LineBlank, LineComment, LineDone, LineFinish, LineBad}

\* JSON.parse of a payload followed by choices?.[0]?.delta?.content and
\* choices?.[0]?.finish_reason; any other text does not parse
JsonParse(payload) ==
    IF payload = "{\"choices\":[{\"delta\":{\"content\":\"Hi\"}}]}"
    THEN [ok |-> TRUE, content |-> "Hi", finish |-> FALSE]
    ELSE IF payload = "{\"choices\":[{\"delta\":{\"content\":\" B2\"}}]}"
    THEN [ok |-> TRUE, content |-> " B2", finish |-> FALSE]
    ELSE IF payload = "{\"choices\":[{\"delta\":{},\"finish_reason\":\"stop\"}]}"
    THEN [ok |-> TRUE, content |-> "", finish |-> TRUE]
    ELSE [ok |-> FALSE, content |-> "", finish |-> FALSE]

RECURSIVE FindFrom(_, _, _)
\* the first position >= i of character c in s, 0 when there is none
FindFrom(s, c, i) ==
    IF i > Len(s) THEN 0
    ELSE IF CharAt(s, i) = c THEN i
    ELSE FindFrom(s, c, i + 1)

\* s.indexOf('\n'), 1-based, 0 for -1
IndexOfNewline(s) == FindFrom(s, "\n", 1)

RECURSIVE SplitLines(_)
\* s.split('\n')
SplitLines(s) ==
    LET i == IndexOfNewline(s)
    IN  IF i = 0 THEN <<s>>
        ELSE <<SubSeq(s, 1, i - 1)>> \o SplitLines(SubSeq(s, i + 1, Len(s)))

RECURSIVE JoinLines(_)
\* the stream text of a sequence of lines, each terminated by a newline
JoinLines(lines) ==
    IF Len(lines) = 0 THEN ""
    ELSE lines[1] \o "\n" \o JoinLines(Tail(lines))

\* s.endsWith('\r')
EndsWithCR(s) == Len(s) > 0 /\ CharAt(s, Len(s)) = "\r"

\* buffer, accumulated text and sawDone of a decoder; doneSeen and
\* textAtDone record that the [DONE] branch was taken and the text then,
\* finishSeen and textAtFinish that an event with a finish_reason was parsed
\* and the text once its own delta was added; stage is the analysis stage
\* ExcelSearchPanel shows
InitDec ==
    [buffer |-> "", text |-> "", sawDone |-> FALSE, stage |-> "requesting",
     doneSeen |-> FALSE, textAtDone |-> "", finishSeen |-> FALSE,
     textAtFinish |-> ""]

\* the record of the first parsed event that carries a finish_reason
SawFinish(d, data) ==
    IF data.finish /\ ~d.finishSeen
    THEN [d EXCEPT !.finishSeen = TRUE, !.textAtFinish = d.text \o data.content]
    ELSE d

\* the body of the for loop with a payload that does not parse ending the
\* loop instead of being ignored
ExcelLineStopOnBadPayload(d, raw) ==
    LET line == Trim(raw)
    IN  IF line = "" THEN d
        ELSE IF line = "data: [DONE]"
        THEN [d EXCEPT !.sawDone = TRUE, !.doneSeen = TRUE, !.textAtDone = d.text]
        ELSE IF ~StartsWith(line, "data: ") THEN d
        ELSE LET data == JsonParse(SliceFrom(line, 6))
             IN  IF ~data.ok THEN [d EXCEPT !.sawDone = TRUE]
                 ELSE [SawFinish(d, data) EXCEPT
                          !.sawDone = d.sawDone \/ data.finish,
                          !.stage = IF data.content # "" THEN "streaming" ELSE @,
                          !.text = d.text \o data.content]

\* the body of the for loop with a line that has no 'data: ' prefix ending
\* the loop instead of being skipped
ExcelLineStopOnOtherLine(d, raw) ==
    LET line == Trim(raw)
    IN  IF line = "" THEN d
        ELSE IF line = "data: [DONE]"
        THEN [d EXCEPT !.sawDone = TRUE, !.doneSeen = TRUE, !.textAtDone = d.text]
        ELSE IF ~StartsWith(line, "data: ") THEN [d EXCEPT !.sawDone = TRUE]
        ELSE LET data == JsonParse(SliceFrom(line, 6))
             IN  IF ~data.ok THEN d
                 ELSE [SawFinish(d, data) EXCEPT
                          !.sawDone = d.sawDone \/ data.finish,
                          !.stage = IF data.content # "" THEN "streaming" ELSE @,
                          !.text = d.text \o data.content]

\* ExcelSearchPanel.tsx:353-388 - the body of the for loop for one part
ExcelLine(d, raw) ==
    LET line == Trim(raw)
    IN  IF line = "" THEN d
        ELSE IF line = "data: [DONE]"
        THEN [d EXCEPT !.sawDone = TRUE, !.doneSeen = TRUE, !.textAtDone = d.text]
        ELSE IF ~StartsWith(line, "data: ") THEN d
        ELSE LET data == JsonParse(SliceFrom(line, 6))
             IN  IF ~data.ok THEN d
                 ELSE [SawFinish(d, data) EXCEPT
                          !.sawDone = d.sawDone \/ data.finish,
                          !.stage = IF data.content # "" THEN "streaming" ELSE @,
                          !.text = d.text \o data.content]

RECURSIVE ExcelLines(_, _, _)
\* ExcelSearchPanel.tsx:352-388 - for (const raw of parts) with its breaks
ExcelLines(d, parts, i) ==
    IF i > Len(parts) \/ d.sawDone THEN d
    ELSE ExcelLines(ExcelLine(d, parts[i]), parts, i + 1)

\* the decoder with the trailing partial line dropped instead of kept
ExcelDecodeChunkNoCarry(d, chunk) ==
    LET parts == SplitLines(d.buffer \o chunk)
        d1 == [d EXCEPT !.buffer = ""]
    IN  ExcelLines(d1, SubSeq(parts, 1, Len(parts) - 1), 1)

\* ExcelSearchPanel.tsx:349-388 - one chunk read by the loop
ExcelDecodeChunk(d, chunk) ==
    LET parts == SplitLines(d.buffer \o chunk)
        d1 == [d EXCEPT !.buffer = parts[Len(parts)]]
    IN  ExcelLines(d1, SubSeq(parts, 1, Len(parts) - 1), 1)

RECURSIVE IndexOfLines(_)
\* part_004:88-108 and part_003:72-92 - the inner while loop
IndexOfLines(d) ==
    LET newlineIndex == IndexOfNewline(d.buffer)
    IN  IF newlineIndex = 0 THEN d
        ELSE LET line0 == SubSeq(d.buffer, 1, newlineIndex - 1)
                 d1 == [d EXCEPT !.buffer = SubSeq(d.buffer, newlineIndex + 1, Len(d.buffer))]
                 line == IF EndsWithCR(line0) THEN SubSeq(line0, 1, Len(line0) - 1) ELSE line0
             IN  IF StartsWith(line, ":") \/ Trim(line) = "" THEN IndexOfLines(d1)
                 ELSE IF ~StartsWith(line, "data: ") THEN IndexOfLines(d1)
                 ELSE LET jsonStr == Trim(SliceFrom(line, 6))
                      IN  IF jsonStr = "[DONE]"
                          THEN IF d1.doneSeen THEN d1
                               ELSE [d1 EXCEPT !.doneSeen = TRUE, !.textAtDone = d1.text]
                          ELSE LET parsed == JsonParse(jsonStr)
                               IN  IndexOfLines([SawFinish(d1, parsed) EXCEPT
                                                     !.text = d1.text \o parsed.content])

\* part_004:85-108 and part_003:69-92 - one chunk read by the loop
IndexOfDecodeChunk(d, chunk) == IndexOfLines([d EXCEPT !.buffer = d.buffer \o chunk])

\* part_000:278-287 and ChatSidebar.tsx:879-886 - the body of the for loop
\* for one line of a chunk; JSON.parse accepts white space around the value
SummaryLine(d, line) ==
    IF StartsWith(line, "data: ") /\ line # "data: [DONE]"
    THEN LET data == JsonParse(Trim(SliceFrom(line, 6)))
         IN  IF data.ok THEN [d EXCEPT !.text = d.text \o data.content] ELSE d
    ELSE d

RECURSIVE SummaryLines(_, _, _)
SummaryLines(d, lines, i) ==
    IF i > Len(lines) THEN d
    ELSE SummaryLines(SummaryLine(d, lines[i]), lines, i + 1)

\* part_000:272-289 and ChatSidebar.tsx:874-887 - one chunk read by the
\* loop of handleFileUpload and of generateSummary: the chunk is split into
\* lines by itself, nothing is kept for the next chunk
SummaryDecodeChunk(d, chunk) == SummaryLines(d, SplitLines(chunk), 1)

DecodeChunk(kind, d, chunk) ==
    IF kind = "excel" THEN ExcelDecodeChunk(d, chunk)
    ELSE IF kind = "summary" THEN SummaryDecodeChunk(d, chunk)
    ELSE IndexOfDecodeChunk(d, chunk)

\* the event streams: up to MaxEvents lines, the last one possibly without
\* its newline
EventSeqs == UNION {[1..n -> EventLines] : n \in 1..MaxEvents}

StreamText(lines, terminated) ==
    LET text == JoinLines(lines)
    IN  IF terminated THEN text ELSE SubSeq(text, 1, Len(text) - 1)

InitDecoder ==
    /\ decKind \in DecoderKinds
    /\ \E lines \in EventSeqs, terminated \in BOOLEAN :
         decWhole = StreamText(lines, terminated)
    /\ decRest = decWhole
    /\ dec = InitDec
    /\ decPc = "reading"
    /\ decReadAfterDone = FALSE
    /\ decSplit = FALSE

InDecoder == mode = "decoder" /\ UNCHANGED <<mode, faults, excelVars, indexVars, docVars, fetch, dm>>

\* reader.read() resolves with a chunk of n characters of the stream, which
\* is decoded; ExcelSearchPanel.tsx:346-392 cancels the reader after sawDone
ReadChunk ==
    /\ InDecoder
    /\ decPc = "reading"
    /\ \E n \in 1..Len(decRest) :
         LET chunk == SubSeq(decRest, 1, n)
             d == DecodeChunk(decKind, dec, chunk)
         IN  /\ dec' = d
             /\ decRest' = SubSeq(decRest, n + 1, Len(decRest))
             /\ decPc' = IF decKind = "excel" /\ d.sawDone THEN "cancelled" ELSE "reading"
             /\ decSplit' = (decSplit \/ (n < Len(decRest) /\ CharAt(decRest, n) # "\n"))
    /\ decReadAfterDone' = (decReadAfterDone \/ dec.doneSeen)
    /\ UNCHANGED <<decKind, decWhole>>

\* a loop that, when the stream ends, parses what is left in the line buffer
\* as one more line
ReadDoneFlushingBuffer ==
    /\ InDecoder
    /\ decPc = "reading"
    /\ decRest = ""
    /\ decPc' = "ended"
    /\ dec' = DecodeChunk(decKind, dec, "\n")
    /\ UNCHANGED <<decKind, decWhole, decRest, decReadAfterDone, decSplit>>

\* reader.read() resolves with done: true: the loop is left
\* (ExcelSearchPanel.tsx:346-347) and nothing reads the line buffer again
ReadDone ==
    /\ InDecoder
    /\ decPc = "reading"
    /\ decRest = ""
    /\ decPc' = "ended"
    /\ UNCHANGED <<decKind, decWhole, decRest, dec, decReadAfterDone, decSplit>>

NextDecoder ==
    \/ ReadChunk
    \/ ReadDone

\* lengths of the checkpointed content and texts of the input box explored
\* around the thresholds of getContinueContext
SavedLengths == {0, 1, 49, 50, 51, 1999, 2000, 2001}

TypedSamples ==
    {"continue", "  Please CONTINUE ", "go on", "Resume the analysis",
     "sum column B", "what is in B2?"}

RECURSIVE Numerals(_, _)
\* the decimal numerals i..j, each followed by '.': "1.2.3. ... 10.11."
Numerals(i, j) ==
    IF i = j THEN ToString(i) \o "."
    ELSE LET mid == (i + j) \div 2 IN Numerals(i, mid) \o Numerals(mid + 1, j)

\* a text of n characters that is not periodic, so that its slices differ
TextOfLength(n) == SubSeq(Numerals(1, 700), 1, n)

(***************************************************************************)
(* useDirectMessages (useChatSessions.ts:225-449): the messages exchanged  *)
(* with one friend, fetchMessages and the two INSERT subscriptions.        *)
(***************************************************************************)
\* the hook is not mounted
DirectOff ==
    dm = [messages |-> <<>>, loading |-> FALSE, rows |-> <<>>, fetchPc |-> "idle",
          fetchData |-> <<>>, events |-> {}]

\* an event of the mounted hook
InDirect ==
    /\ mode = "direct"
    /\ UNCHANGED <<mode, excelVars, indexVars, decoderVars, docVars, fetch>>

\* the id the server gives to the k-th row of direct_messages
DirectId(k) == "m" \o ToString(k)

\* a row is inserted; realtime emits its INSERT event to the subscription
\* whose filter matches it, where the event is in flight
InsertRow(sender, sub) ==
    LET id == DirectId(Len(dm.rows) + 1)
    IN  dm' = [dm EXCEPT !.rows = Append(@, [id |-> id, sender_id |-> sender]),
                         !.events = @ \cup {[id |-> id, sub |-> sub, pc |-> "sent"]}]

\* the friend sends a message to the current user: the row matches the
\* filter recipient_id=eq.currentUserId (useChatSessions.ts:386-392)
FriendSends ==
    /\ InDirect
    /\ Len(dm.rows) < MaxDirect
    /\ InsertRow("friend", "recipient")
    /\ UNCHANGED faults

\* useChatSessions.ts:296-331 - sendMessage: the insert is answered; a row
\* that was inserted matches the filter sender_id=eq.currentUserId (418-424)
SendMessage(ok) ==
    /\ InDirect
    /\ Answer(ok)
    /\ Len(dm.rows) < MaxDirect
    /\ IF ok THEN InsertRow("me", "sender") ELSE UNCHANGED dm

\* the realtime channel calls the handler of the subscription with the new
\* row; the handler calls getPrivateKey (useChatSessions.ts:393-397, 425-431)
InsertEventDelivered ==
    /\ InDirect
    /\ UNCHANGED faults
    /\ \E e \in dm.events :
         /\ e.pc = "sent"
         /\ dm' = [dm EXCEPT !.events = (@ \ {e}) \cup {[e EXCEPT !.pc = "key"]}]

\* useChatSessions.ts:397-399 and 431-433 - getPrivateKey is answered and
\* decryptSingleMessage is called; without a key the handler ends
HandlerKeyDone(hasKey) ==
    /\ InDirect
    /\ Answer(hasKey)
    /\ \E e \in dm.events :
         /\ e.pc = "key"
         /\ dm' = [dm EXCEPT !.events =
                      IF hasKey THEN (@ \ {e}) \cup {[e EXCEPT !.pc = "decrypt"]}
                      ELSE @ \ {e}]

\* prev => prev.some(m => m.id === id) ? prev : [...prev, id]
AppendUnlessPresent(prev, id) ==
    IF \E i \in DOMAIN prev : prev[i] = id THEN prev ELSE Append(prev, id)

\* useChatSessions.ts:399-404 - the handler of the recipient subscription
\* has the decrypted message, which is from the friend of the open chat
RecipientInsertHandled ==
    /\ InDirect
    /\ UNCHANGED faults
    /\ \E e \in dm.events :
         /\ e.sub = "recipient"
         /\ e.pc = "decrypt"
         /\ dm' = [dm EXCEPT !.events = @ \ {e}, !.messages = Append(@, e.id)]

\* useChatSessions.ts:433-440 - the handler of the sender subscription has
\* the decrypted message
SenderInsertHandled ==
    /\ InDirect
    /\ UNCHANGED faults
    /\ \E e \in dm.events :
         /\ e.sub = "sender"
         /\ e.pc = "decrypt"
         /\ dm' = [dm EXCEPT !.events = @ \ {e},
                             !.messages = AppendUnlessPresent(@, e.id)]

\* useChatSessions.ts:269-273 and 291-292 - getPrivateKey of fetchMessages
\* is answered; with a key the select is issued
FetchMessagesKeyDone(hasKey) ==
    /\ InDirect
    /\ Answer(hasKey)
    /\ dm.fetchPc = "key"
    /\ dm' = IF hasKey THEN [dm EXCEPT !.fetchPc = "select"]
             ELSE [dm EXCEPT !.fetchPc = "idle", !.loading = FALSE]

\* useChatSessions.ts:275-286 - the select is answered with the rows of the
\* conversation, oldest first, and their decryption starts
FetchMessagesSelectDone(ok) ==
    /\ InDirect
    /\ Answer(ok)
    /\ dm.fetchPc = "select"
    /\ dm' = IF ok
             THEN [dm EXCEPT !.fetchPc = "decrypt",
                             !.fetchData = [i \in DOMAIN dm.rows |-> dm.rows[i].id]]
             ELSE [dm EXCEPT !.fetchPc = "idle", !.loading = FALSE]

\* useChatSessions.ts:283-292 - every row is decrypted: setMessages replaces
\* the list
FetchMessagesDecrypted ==
    /\ InDirect
    /\ UNCHANGED faults
    /\ dm.fetchPc = "decrypt"
    /\ dm' = [dm EXCEPT !.fetchPc = "idle", !.loading = FALSE,
                        !.messages = dm.fetchData, !.fetchData = <<>>]

NextDirect ==
    \/ FriendSends
    \/ \E ok \in BOOLEAN : SendMessage(ok)
    \/ InsertEventDelivered
    \/ \E hasKey \in BOOLEAN : HandlerKeyDone(hasKey)
    \/ RecipientInsertHandled
    \/ SenderInsertHandled
    \/ \E hasKey \in BOOLEAN : FetchMessagesKeyDone(hasKey)
    \/ \E ok \in BOOLEAN : FetchMessagesSelectDone(ok)
    \/ FetchMessagesDecrypted

(***************************************************************************)
(* Specifications.                                                         *)
(***************************************************************************)
\* the state of the components that are not mounted
ExcelOff == InitExcel /\ sessionId = Null

IndexOff == InitIndex /\ currentSessionId = Null

DecoderOff ==
    /\ decKind = "excel"
    /\ decWhole = ""
    /\ decRest = ""
    /\ dec = InitDec
    /\ decPc = "ended"
    /\ decReadAfterDone = FALSE
    /\ decSplit = FALSE

\* no document is selected and no loadOrCreateSession is running
DocOff ==
    /\ documentId = Null
    /\ loading = FALSE
    /\ docLoads = {}
    /\ docChanges = 0

\* the document of the workbook is selected and its loadOrCreateSession has
\* returned
DocLoaded ==
    /\ documentId = "A"
    /\ loading = FALSE
    /\ docLoads = {}
    /\ docChanges = 0

ExcelInit ==
    mode = "excel" /\ faults = 0 /\ InitExcel /\ IndexOff /\ DecoderOff /\ DocLoaded /\ DirectOff

IndexInit ==
    mode = "index" /\ faults = 0 /\ InitIndex /\ ExcelOff /\ DecoderOff /\ DocOff /\ DirectOff

DecoderInit ==
    mode = "decoder" /\ faults = 0 /\ InitDecoder /\ ExcelOff /\ IndexOff /\ DocOff /\ DirectOff

\* ExcelSearchPanel on a session that was loaded with an earlier exchange
\* (useExcelChatSession.ts:67-84): the rows of the session are shown and
\* lastSavedContent is the content of its last assistant message
ResumeInit ==
    /\ mode = "excel" /\ faults = 0 /\ IndexOff /\ DecoderOff /\ DocLoaded /\ DirectOff
    /\ \E n \in SavedLengths, typed \in TypedSamples :
         LET saved == TextOfLength(n)
             rows == IF n = 0 THEN <<>>
                     ELSE <<Msg("m0-user", "user", "analyse the sheet"),
                            Msg("m0-assistant", "assistant", saved)>>
         IN  /\ sessionId = "s1"
             /\ hookMessages = rows
             /\ store = rows
             /\ lastSavedContent = saved
             /\ input = typed
    /\ autoSaveTimerRef = Null
    /\ pendingAssistantIdRef = Null
    /\ pendingContentRef = ""
    /\ timers = {}
    /\ excel = TRUE
    /\ localMessages = <<Msg("u0", "assistant", "Loaded: book.xlsx")>>
    /\ isLoading = FALSE
    /\ analysisStage = "preparing"
    /\ abortControllerRef = {}
    /\ aborted = {}
    /\ currentAssistantIdRef = Null
    /\ currentResponseRef = ""
    /\ pc = [p \in Proc |-> "idle"]
    /\ loc = [p \in Proc |-> InitLoc]
    /\ stopPc = "idle"
    /\ stopLoc = InitStopLoc
    /\ inflight = {}
    /\ sessionTitle = "Excel: book.xlsx"

\* the first steps of handleSend, up to the query of the request
NextResume ==
    \/ HandleSend(1)
    \/ \E ok \in BOOLEAN : SaveUserDone(1, ok)
    \/ \E hasToken \in BOOLEAN : GetSessionDone(1, hasToken)

ExcelSpec == ExcelInit /\ [][NextExcel]_vars

\* one exchange of the panel and its stop
NextStop ==
    \/ HandleSend(1)
    \/ \E ok \in BOOLEAN : SaveUserDone(1, ok)
    \/ \E hasToken \in BOOLEAN : GetSessionDone(1, hasToken)
    \/ \E ok \in BOOLEAN : StartAssistantDone(1, ok)
    \/ \E outcome \in {"ok", "notok", "neterror"} : FetchDone(1, outcome)
    \/ AbortError(1)
    \/ ReadDelta(1)
    \/ ReadEnd(1)
    \/ StreamError(1)
    \/ \E ok \in BOOLEAN : FinalizeDone(1, ok)
    \/ \E eager \in BOOLEAN : HandleStopAnalysis(eager)
    \/ \E ok \in BOOLEAN, eager \in BOOLEAN : ForceSaveDone(ok, eager)
    \/ AutoSaveTick
    \/ \E ok \in BOOLEAN : AutoSaveDone(ok)

\* Every awaited call of handleSend settles, a rejected fetch or read
\* reaches the catch block and the stream goes on to its end.  Nothing is
\* assumed of the two final writes of the assistant row (the update of
\* finalizeAssistantMessage and the update of forceSaveProgress), nor of
\* what the user does.
StopFairness ==
    /\ WF_vars(\E ok \in BOOLEAN : SaveUserDone(1, ok))
    /\ WF_vars(\E hasToken \in BOOLEAN : GetSessionDone(1, hasToken))
    /\ WF_vars(\E ok \in BOOLEAN : StartAssistantDone(1, ok))
    /\ WF_vars(\E outcome \in {"ok", "notok", "neterror"} : FetchDone(1, outcome))
    /\ WF_vars(AbortError(1))
    /\ WF_vars(ReadDelta(1) \/ ReadEnd(1))

StopSpec == ExcelInit /\ [][NextStop]_vars /\ StopFairness

\* the panel with the end of its life
TeardownSpec == ExcelInit /\ [][NextExcel \/ NextTeardown]_vars

LoadSpec == IndexInit /\ [][NextLoad]_vars

IndexSpec == IndexInit /\ [][NextIndex]_vars

\* session selection, message loads and the deletion of a session
DeleteSpec == IndexInit /\ [][NextLoad \/ NextDelete]_vars

\* useChatSessions.ts:16-24 and 98-101 - IndexAuthed has just mounted: the
\* session id restored from localStorage is current and being loaded, the
\* list is empty and the initial fetchSessions awaits getSession.  The
\* session B may have been deleted since the id was stored.
FetchInit ==
    /\ mode = "index" /\ faults = 0 /\ ExcelOff /\ DecoderOff /\ DocOff /\ DirectOff
    /\ currentSessionId \in {Null, "A", "B"}
    /\ lastSessionKey = currentSessionId
    /\ sessions = <<>>
    /\ loadingSessionRef = currentSessionId
    /\ isLoadingMessages = (currentSessionId # Null)
    /\ loads = IF currentSessionId = Null THEN {}
               ELSE {[n |-> 0, session |-> currentSessionId]}
    /\ chatMessages = <<>>
    /\ videoContext = Null
    /\ hs = InitHs
    /\ dbSessions \in {Sessions, {"A"}}
    /\ durable = IF "B" \in dbSessions THEN InitDurable
                 ELSE [InitDurable EXCEPT !["B"] = <<>>]
    /\ selects = <<>>
    /\ answered = {}
    /\ toasts = {}
    /\ del = InitDel
    /\ fetch = [closure |-> currentSessionId, n |-> 1, applied |-> 0,
                loading |-> TRUE, pending |-> {[n |-> 1, pc |-> "getSession"]}]

\* session selection, message loads and the fetches of the session list
FetchSpec == FetchInit /\ [][NextLoad \/ NextFetch]_vars

\* useChatSessions.ts:377-380 and 264-268 - the chat with the friend has
\* just opened: the conversation has no rows, both subscriptions are set up
\* and fetchMessages awaits getPrivateKey
DirectInit ==
    /\ mode = "direct" /\ faults = 0 /\ ExcelOff /\ IndexOff /\ DecoderOff /\ DocOff
    /\ dm = [messages |-> <<>>, loading |-> TRUE, rows |-> <<>>, fetchPc |-> "key",
             fetchData |-> <<>>, events |-> {}]

DirectSpec == DirectInit /\ [][NextDirect]_vars

ExchangeSpec == (ExcelInit \/ IndexInit) /\ [][NextExcel \/ NextIndex]_vars

DecoderSpec == DecoderInit /\ [][NextDecoder]_vars

\* the panel mounted with no document selected (ExcelSearchPanel.tsx:68)
SessionInit ==
    mode = "session" /\ faults = 0 /\ ExcelOff /\ IndexOff /\ DecoderOff /\ DocOff /\ DirectOff

SessionSpec == SessionInit /\ [][NextSession]_vars

\* every request loadOrCreateSession awaits is answered; nothing is assumed
\* of what the user selects
SessionLiveSpec ==
    /\ SessionInit
    /\ [][NextSession]_vars
    /\ WF_vars(\E hasUser \in BOOLEAN : GetUserDone(hasUser))
    /\ WF_vars(\E ok \in BOOLEAN : SelectRowsDone(ok))
    /\ WF_vars(\E ok \in BOOLEAN : CreateSessionRowDone(ok))

\* the decoder of the document summary (IndexAuthed.handleFileUpload,
\* LiveRecorder.generateSummary) on the same streams
SummaryInit ==
    /\ mode = "decoder" /\ faults = 0 /\ ExcelOff /\ IndexOff /\ DocOff /\ DirectOff
    /\ decKind = "summary"
    /\ \E lines \in EventSeqs, terminated \in BOOLEAN :
         decWhole = StreamText(lines, terminated)
    /\ decRest = decWhole
    /\ dec = InitDec
    /\ decPc = "reading"
    /\ decReadAfterDone = FALSE
    /\ decSplit = FALSE

SummarySpec == SummaryInit /\ [][NextDecoder]_vars

ResumeSpec == ResumeInit /\ [][NextResume]_vars

(***************************************************************************)
(* Claims about ExcelSearchPanel / useExcelChatSession (ExcelSpec).        *)
(***************************************************************************)
HasRow(list, id) == \E i \in DOMAIN list : list[i].id = id
ContentOf(list, id) == list[CHOOSE i \in DOMAIN list : list[i].id = id].content

InFlight == {p \in Proc : pc[p] \notin {"idle", "done"}}

RECURSIVE Accumulated(_, _)
\* the concatenation of the first k deltas of the response to invocation p
Accumulated(p, k) == IF k = 0 THEN "" ELSE Accumulated(p, k - 1) \o DeltaText(p, k)

\* what an exchange may itself put into its assistant row
OwnContents(p) ==
    {Placeholder} \cup {Accumulated(p, k) : k \in 0..MaxDeltas}
                  \cup {Accumulated(p, k) \o StoppedMarkerSaved : k \in 0..MaxDeltas}

\* C1: at most one question->answer exchange is in flight at any time (a
\* handleSend invoked while an earlier one has not finished is rejected), and
\* the stored assistant message of an exchange never holds text accumulated
\* by another exchange.
C1_OneExchangeInFlight ==
    /\ Cardinality(InFlight) <= 1
    /\ \A p \in Proc :
         (loc[p].assistantMsgId # Null /\ HasRow(store, loc[p].assistantMsgId))
            => ContentOf(store, loc[p].assistantMsgId) \in OwnContents(p)

\* the second half of C1 alone: text crosses from one exchange into the
\* stored message of another
C1_NoCrossWrite ==
    \A p \in Proc :
        (loc[p].assistantMsgId # Null /\ HasRow(store, loc[p].assistantMsgId))
           => ContentOf(store, loc[p].assistantMsgId) \in OwnContents(p)

\* C3: once handleStopAnalysis has finished a stop that found accumulated
\* text (at least one delta), the stored assistant message holds
\* accumulated text + stopped marker and the displayed list shows the same.
C3_StopPreservesPartial ==
    (/\ stopPc = "idle"
     /\ stopLoc.response # ""
     /\ HasRow(store, stopLoc.assistantId)
     /\ Cardinality({p \in Proc : pc[p] # "idle"}) = 1)
        => /\ ContentOf(store, stopLoc.assistantId)
                = stopLoc.response \o StoppedMarkerSaved
           /\ HasRow(Messages, stopLoc.assistantId)
           /\ ContentOf(Messages, stopLoc.assistantId)
                = stopLoc.response \o StoppedMarkerSaved

\* C4: after an exchange ended by normal end of stream, its final write
\* succeeded and no write is outstanding, the stored content of the
\* assistant message is the final accumulator value.
C4_FinalContentStored ==
    \A p \in Proc :
        (/\ pc[p] = "done"
         /\ loc[p].how = "completed"
         /\ loc[p].assistantMsgId # Null
         /\ loc[p].finalOk
         /\ ~Aborted(p)
         /\ inflight = {}
         /\ \A q \in Proc \ {p} : pc[q] = "idle")
            => ContentOf(store, loc[p].assistantMsgId) = loc[p].fullResponse

\* C6: whenever no exchange is in flight after one has ended, no auto-save
\* interval is still set and the pending assistant id and pending content
\* are cleared.
C6_NoLeftoverTimer ==
    (/\ InFlight = {}
     /\ stopPc = "idle"
     /\ \E p \in Proc : pc[p] = "done")
        => /\ timers = {}
           /\ autoSaveTimerRef = Null
           /\ pendingAssistantIdRef = Null
           /\ pendingContentRef = ""

\* C8: an exchange ended by a network error after content was accumulated
\* leaves accumulated text + stopped marker in the store and a cleared
\* accumulator.
C8_NetworkErrorSavesPartial ==
    \A p \in Proc :
        (/\ pc[p] = "done"
         /\ loc[p].how = "error"
         /\ Len(loc[p].fullResponse) > 10
         /\ loc[p].assistantMsgId # Null
         /\ inflight = {}
         /\ \A q \in Proc \ {p} : pc[q] = "idle")
            => /\ ContentOf(store, loc[p].assistantMsgId)
                    = loc[p].fullResponse \o StoppedMarkerSaved
               /\ pendingContentRef = ""
               /\ currentResponseRef = ""

(***************************************************************************)
(* Claims about the stream decoders (DecoderSpec).                         *)
(***************************************************************************)
\* the part of the response body delivered so far
Delivered == SubSeq(decWhole, 1, Len(decWhole) - Len(decRest))

\* C2: for every event stream and every partition of it into chunks, the
\* text accumulated by the ExcelSearchPanel decoder equals the text it
\* accumulates when the same characters arrive as one single chunk - at
\* every point of the delivery and when the reading has ended.
C2_ChunkingInvariant ==
    (mode = "decoder" /\ decKind = "excel")
        => /\ dec.text = ExcelDecodeChunk(InitDec, Delivered).text
           /\ decPc # "reading" => dec.text = ExcelDecodeChunk(InitDec, decWhole).text

\* a stream of two content lines was read to its end in chunks, one of which
\* ended inside a line, and both deltas were accumulated
C2_Witness ==
    /\ mode = "decoder" /\ decKind = "excel"
    /\ decWhole = JoinLines(<<LineHi, LineB2>>)
    /\ decSplit
    /\ decPc = "ended"
    /\ dec.text = "Hi B2"

\* C9: in every decoder, once a line with the payload [DONE] has been
\* processed no later line adds to the accumulated text and the reader is
\* not read again.
C9_DoneStopsDecoders ==
    (mode = "decoder" /\ dec.doneSeen)
        => /\ dec.text = dec.textAtDone
           /\ ~decReadAfterDone

(***************************************************************************)
(* Claims about IndexAuthed (LoadSpec, ExchangeSpec).                      *)
(***************************************************************************)
Range(list) == {list[i] : i \in DOMAIN list}

C7_ContinueSeed ==
    \A p \in Proc :
        LET saved == lastSavedContent
            seed == loc[p].previousContext
        IN  /\ (pc[p] # "idle" /\ loc[p].wantsContinue)
                => IF Len(saved) < 50 THEN seed = Null
                   ELSE /\ seed # Null
                        /\ Len(seed) = Min(2000, Len(saved))
                        /\ saved = SubSeq(saved, 1, Len(saved) - Len(seed)) \o seed
            /\ (pc[p] # "idle" /\ ~loc[p].wantsContinue) => seed = Null
            /\ pc[p] = "startAssistant"
                => IF loc[p].wantsContinue /\ seed # Null
                   THEN loc[p].finalQuery =
                          ContinueHead \o seed \o ContinueMid \o loc[p].userQuery
                                       \o ContinueTail
                   ELSE loc[p].finalQuery = loc[p].userQuery

\* a continuation phrase typed over 2001 checkpointed characters: the seed
\* is the last 2000 of them and the query embeds it
C7_Witness ==
    /\ pc[1] = "startAssistant"
    /\ loc[1].wantsContinue
    /\ Len(lastSavedContent) = 2001
    /\ Len(loc[1].previousContext) = 2000
    /\ Includes(loc[1].finalQuery, loc[1].previousContext)

\* ---- createSession

\* C11: the step in which createSession settles. When auth.getUser gave no
\* user the handler ends without a session and the session list, the current
\* session id and the last-session key of localStorage are unchanged; when
\* the session is created it is put at the head of the list and both the
\* current session id and the localStorage key equal its id.
C11_CreateSession ==
    [][(mode = "index" /\ hs.pc = "createSession" /\ hs'.pc # "createSession")
        => /\ hs'.user = "none"
                => /\ ~hs'.created
                   /\ hs'.sessionId = Null
                   /\ UNCHANGED <<sessions, currentSessionId, lastSessionKey>>
           /\ hs'.created
                => /\ hs'.sessionId \notin Range(sessions)
                   /\ sessions' = <<hs'.sessionId>> \o sessions
                   /\ currentSessionId' = hs'.sessionId
                   /\ lastSessionKey' = hs'.sessionId]_vars

\* a submit made with no current session has ended because createSession
\* found no user
C11_Witness ==
    /\ mode = "index"
    /\ hs.pc = "done"
    /\ hs.user = "none"
    /\ ~hs.created
    /\ currentSessionId = Null
    /\ lastSessionKey = Null
    /\ sessions = <<"A", "B">>

\* ---- unload and unmount

\* C12: when the page is unloaded or the panel is unmounted while a stream
\* is being read, the exchange is loading and more than 10 characters have
\* accumulated for an assistant row of the table, forceSaveProgress has
\* issued its update of that row with the accumulated text.
C12_TeardownSaves ==
    (/\ mode \in {"unloaded", "unmounted"}
     /\ isLoading
     /\ \E p \in Proc : pc[p] = "stream"
     /\ Len(currentResponseRef) > 10
     /\ pendingAssistantIdRef # Null
     /\ Len(pendingContentRef) > 3)
    => /\ stopPc = "forceSave"
       /\ stopLoc.id = pendingAssistantIdRef
       /\ stopLoc.content = pendingContentRef

\* ---- the final write

\* C13: when the update issued by finalizeAssistantMessage failed, the
\* update was issued at least twice before the exchange ended, and the
\* displayed list shows the complete text of the response.
C13_FinalWriteRetried ==
    \A p \in Proc :
        (/\ mode = "excel"
         /\ pc[p] = "done"
         /\ loc[p].how = "completed"
         /\ loc[p].assistantMsgId # Null
         /\ ~loc[p].finalOk)
        => /\ loc[p].finalWrites >= 2
           /\ ContentOf(Messages, loc[p].assistantMsgId) = loc[p].fullResponse

\* ---- a submit without a credential

\* handleSend of invocation p ended in the catch block with this message
CaughtWith(p, message) ==
    /\ pc[p] = "done"
    /\ loc[p].how = "error"
    /\ HasRow(localMessages, RandomUUID(p, "error"))
    /\ ContentOf(localMessages, RandomUUID(p, "error")) = ErrorText(message)

\* C14: a submit that found no credential has shown an error to the user.
\* In IndexAuthed, after createSession found no user, a toast was shown or
\* the message list holds an error message; in ExcelSearchPanel, after
\* getSession gave no access token, the displayed list holds the error
\* message of the exchange.
C14_NoCredentialSurfaced ==
    /\ (mode = "index" /\ hs.pc = "done" /\ hs.user = "none")
         => \/ toasts # {}
            \/ \E i \in DOMAIN chatMessages : chatMessages[i].content = VideoError
    /\ \A p \in Proc :
         (mode = "excel" /\ CaughtWith(p, "Not authenticated"))
            => HasRow(Messages, RandomUUID(p, "error"))

\* ---- the continuation test

\* C15: shouldContinue answered yes for the submitted text exactly when the
\* text, lower-cased and trimmed, is one of the continuation phrases.
C15_ContinueIsMembership ==
    \A p \in Proc :
        (mode = "excel" /\ pc[p] # "idle")
        => (loc[p].wantsContinue
              <=> Trim(ToLowerCase(loc[p].userQuery)) \in ContinueKeywords)

\* ---- a data line that does not parse

RECURSIVE WithoutBadLines(_)
\* the lines without those whose payload does not parse
WithoutBadLines(lines) ==
    IF Len(lines) = 0 THEN <<>>
    ELSE IF Trim(lines[1]) = LineBad THEN WithoutBadLines(Tail(lines))
    ELSE <<lines[1]>> \o WithoutBadLines(Tail(lines))

\* the stream with its complete lines that do not parse taken out; the part
\* after the last newline is left as it is
WithoutBad(s) ==
    LET parts == SplitLines(s)
        lines == WithoutBadLines(SubSeq(parts, 1, Len(parts) - 1))
    IN  JoinLines(lines) \o parts[Len(parts)]

\* C16: whatever the chunks, the decoder of ExcelSearchPanel ends with the
\* text and the sawDone flag it would have for the same stream without the
\* data lines whose payload does not parse: such a line changes nothing,
\* does not end the reading, and the lines after it are appended in order.
C16_MalformedLineSkipped ==
    (mode = "decoder" /\ decKind = "excel" /\ decPc \in {"ended", "cancelled"})
    => LET clean == ExcelDecodeChunk(InitDec, WithoutBad(decWhole))
       IN  /\ dec.text = clean.text
           /\ dec.sawDone = clean.sawDone

\* a line cut short followed by a content line, read in chunks that split a
\* line: the content of the second line is the whole text
C16_Witness ==
    /\ mode = "decoder"
    /\ decKind = "excel"
    /\ decWhole = JoinLines(<<LineBad, LineHi>>)
    /\ decSplit
    /\ decPc = "ended"
    /\ dec.text = "Hi"
    /\ ~dec.sawDone

\* ---- a load that finds no rows

\* C17: while handleSendMessage waits for the insert of the user row of a
\* video link in the session it has just created, and the user has selected
\* nothing else and no request has failed, the message list shows the user
\* message the handler put there: the load of the new session, which finds
\* no rows yet, does not replace it with an empty list.
C17_LoadKeepsBuffer ==
    (/\ mode = "index"
     /\ faults = 0
     /\ hs.path = "youtube"
     /\ hs.created
     /\ hs.pc = "insertUser"
     /\ currentSessionId = hs.sessionId
     /\ selects = <<>>
     /\ durable[hs.sessionId] = <<>>)
    => HasRow(chatMessages, "i" \o ToString(hs.n) \o "-user")

\* ---- the displayed list

C19_DeleteSession ==
    (mode = "index" /\ del.pc = "done")
    => IF del.ok
       THEN /\ del.id \notin Range(sessions)
            /\ durable[del.id] = <<>>
            /\ currentSessionId # del.id
       ELSE del.id \in Range(sessions)

\* ---- stop

\* the controller is idle: not loading, no AbortController held, stage reset
Idle ==
    /\ ~isLoading
    /\ abortControllerRef = {}
    /\ analysisStage = "preparing"

\* C20: once a stop has aborted the exchange, the controller becomes idle,
\* whether or not the final writes of the assistant row are ever answered.
C20_StopReturnsToIdle == (mode = "excel" /\ aborted # {}) ~> Idle

\* ---- the decoder of the document summary

\* every line of the stream is complete and has a payload that parses, is
\* blank, a comment or [DONE]
WellFormed(s) ==
    /\ Len(s) > 0
    /\ CharAt(s, Len(s)) = "\n"
    /\ WithoutBad(s) = s

\* C21: for a well-formed stream read to its end, the text accumulated by
\* the summary decoder is the text it accumulates when the whole stream
\* arrives as one chunk, whatever the chunks were.
C21_SummaryChunkingInvariant ==
    (mode = "decoder" /\ decKind = "summary" /\ decPc = "ended"
        /\ WellFormed(decWhole))
    => dec.text = SummaryDecodeChunk(InitDec, decWhole).text

\* ---- the displayed list while streaming

\* C22: while handleSend is reading the stream, has processed a delta and
\* has not been stopped, the displayed list holds an assistant message whose
\* content is the text accumulated so far.
C22_DisplayedFollowsAccumulator ==
    \A p \in Proc :
        (mode = "excel" /\ pc[p] = "stream" /\ loc[p].ndeltas > 0 /\ ~Aborted(p))
        => \E i \in DOMAIN Messages :
             /\ Messages[i].role = "assistant"
             /\ Messages[i].content = loc[p].fullResponse

\* C23: every value the auto-save timer hands to the store for the assistant
\* message of an exchange is a prefix of the text that exchange has accumulated
\* (and so of its final text, the accumulator being append-only).
C23_TimerWritesArePrefixes ==
    mode = "excel" =>
        \A w \in inflight, p \in Proc :
            loc[p].assistantMsgId = w.id => StartsWith(loc[p].fullResponse, w.content)

\* a write of the timer is in flight for the message of the exchange while a
\* later delta has already extended the accumulator
C23_Witness ==
    /\ mode = "excel"
    /\ \E w \in inflight :
         /\ w.id = loc[1].assistantMsgId
         /\ w.content # ""
         /\ Len(w.content) < Len(loc[1].fullResponse)

\* C24: a tick of the auto-save timer issues a write only when the content
\* differs from what the last flush stored: a tick that follows a completed
\* flush with no delta in between issues nothing.
C24_TickWritesOnlyGrowth ==
    [][\A w \in inflight' \ inflight :
          mode = "excel" => w.content # lastSavedContent]_vars

\* C25: an exchange whose cancellation handle was aborted by the user's stop
\* never ends in the catch block's error branch: when no request has failed,
\* no error message is appended to the list for it.
C25_StopIsNotAnError ==
    mode = "excel" =>
        \A p \in Proc :
            (p \in aborted /\ faults = 0) =>
                /\ loc[p].how # "error"
                /\ ~HasRow(localMessages, RandomUUID(p, "error"))

\* C26: in every decoder, once an event that carries a finish_reason has been
\* parsed no later line adds to the accumulated text and, with input still
\* to come, the reader is not read again.
C26_FinishStopsDecoders ==
    (mode = "decoder" /\ decKind \in DecoderKinds /\ dec.finishSeen)
        => /\ dec.text = dec.textAtFinish
           /\ decRest # "" => decPc # "reading"

\* ---- lines that are no data lines

\* raw.trim() is empty or has no 'data: ' prefix: a blank line, a comment
\* line, any other field of an event
Ignorable(raw) == Trim(raw) = "" \/ ~StartsWith(Trim(raw), "data: ")

RECURSIVE WithoutIgnorableLines(_)
WithoutIgnorableLines(lines) ==
    IF Len(lines) = 0 THEN <<>>
    ELSE IF Ignorable(lines[1]) THEN WithoutIgnorableLines(Tail(lines))
    ELSE <<lines[1]>> \o WithoutIgnorableLines(Tail(lines))

\* the stream with its complete blank, comment and unprefixed lines taken out;
\* the part after the last newline is left as it is
WithoutIgnorable(s) ==
    LET parts == SplitLines(s)
        lines == WithoutIgnorableLines(SubSeq(parts, 1, Len(parts) - 1))
    IN  JoinLines(lines) \o parts[Len(parts)]

\* C27: whatever the chunks, the decoder of ExcelSearchPanel ends with the
\* text, the stage and the sawDone flag it would have for the same stream
\* without its blank lines, comment lines and lines that have no 'data: '
\* prefix: such a line changes none of the three.
C27_OtherLinesIgnored ==
    (mode = "decoder" /\ decKind = "excel" /\ decPc \in {"ended", "cancelled"})
    => LET clean == ExcelDecodeChunk(InitDec, WithoutIgnorable(decWhole))
       IN  /\ dec.text = clean.text
           /\ dec.stage = clean.stage
           /\ dec.sawDone = clean.sawDone

\* a comment line followed by a content line, read in chunks that split a
\* line: the text is the content and the reading went on to the end
C27_Witness ==
    /\ mode = "decoder"
    /\ decKind = "excel"
    /\ decWhole = JoinLines(<<LineComment, LineHi>>)
    /\ decSplit
    /\ decPc = "ended"
    /\ dec.text = "Hi"
    /\ dec.stage = "streaming"
    /\ ~dec.sawDone

\* ---- an exchange that outlives its session

\* C28: a step of a YouTube or web-search exchange that handleSendMessage
\* started in one session leaves the displayed message list as it is when
\* the current session is by then another one.
C28_ExchangeLeavesOtherSession ==
    [][(/\ mode = "index"
        /\ hs.path \in {"youtube", "search"}
        /\ hs.pc \in {"insertUser", "stream"}
        /\ hs' # hs
        /\ hs.sessionId # currentSessionId)
       => chatMessages' = chatMessages]_vars

\* ---- an auto-save answered after the final write

\* C30: once finalizeAssistantMessage has completed for the exchange, and
\* until the next exchange, lastSavedContent is the final content of the
\* exchange; the answer to an auto-save write issued earlier does not change it.
C30_LastSavedIsFinal ==
    \A p \in Proc :
        (/\ mode = "excel"
         /\ pc[p] = "done"
         /\ loc[p].how = "completed"
         /\ loc[p].assistantMsgId # Null
         /\ \A q \in Proc : q # p => pc[q] = "idle")
        => lastSavedContent = loc[p].fullResponse

\* ---- a load that outlives its document

\* C29: the return of a loadOrCreateSession whose document has been replaced
\* (its mounted flag is false) leaves sessionId, messages and lastSavedContent
\* as they are.
C29_LateLoadIgnored ==
    [][\A l \in docLoads :
          (mode = "session" /\ ~l.mounted /\ l \notin docLoads')
          => /\ sessionId' = sessionId
             /\ hookMessages' = hookMessages
             /\ lastSavedContent' = lastSavedContent]_vars

\* ---- a stop during the final write

\* C31: once an exchange whose stream reached its end (the final update of
\* finalizeAssistantMessage was issued) is over and every write of a stop has
\* been answered, its assistant row does not hold the accumulated content
\* followed by the stopped marker.
C31_CompletedNeverMarked ==
    \A p \in Proc :
        (mode = "excel" /\ loc[p].finalWrites > 0
                        /\ pc[p] = "done" /\ stopPc = "idle"
                        /\ HasRow(store, loc[p].assistantMsgId))
        => ContentOf(store, loc[p].assistantMsgId)
             # loc[p].fullResponse \o StoppedMarkerSaved

\* ---- the placeholder row

\* C32: once an exchange has ended, by whatever path, and every write issued
\* for it has been answered, the stored content of its assistant message is
\* not the placeholder startAssistantMessage inserted.
C32_PlaceholderReplaced ==
    \A p \in Proc :
        (/\ mode = "excel"
         /\ pc[p] = "done"
         /\ stopPc = "idle"
         /\ inflight = {}
         /\ HasRow(store, loc[p].assistantMsgId))
        => ContentOf(store, loc[p].assistantMsgId) # Placeholder

\* ---- the seed of another document

\* C33: when a document whose rows hold no assistant message is selected
\* and its loadOrCreateSession has returned with no request failed,
\* getContinueContext returns null: nothing saved for another document is
\* offered as the text to continue from.
C33_SeedStaysWithDocument ==
    (/\ mode = "session"
     /\ documentId # Null
     /\ LastAssistant(DocRows(documentId)) = Null
     /\ docLoads = {}
     /\ faults = 0)
    => GetContinueContext(lastSavedContent) = Null

\* ---- the loading flag of the message list

\* C34: isLoadingMessages is true while the select that loadMessages issued
\* for the current session is pending, and false once no select is pending.
C34_LoadingWhilePending ==
    mode = "index" =>
        /\ (\E l \in loads : l.session = currentSessionId
                             /\ loadingSessionRef = currentSessionId)
           => isLoadingMessages
        /\ loads = {} => ~isLoadingMessages

\* ---- the loading flag of the hook

\* C35: whenever loading is true it becomes false again, also when the
\* document is changed or deselected while loadOrCreateSession is running.
C35_LoadingEnds == (mode = "session" /\ loading) ~> ~loading

\* ---- C36

\* C36: a fetchSessions that is answered with the rows changes the current
\* session (to null) only when the session current at that moment is absent
\* from the fetched list, and leaves currentSessionId null or the id of a
\* session of the list, also when a session was selected while the fetch
\* was in flight or the fetch was started by a later auth event.
C36_FetchKeepsListedSession ==
    [][(mode = "index" /\ fetch'.applied # fetch.applied) =>
         /\ currentSessionId' # currentSessionId =>
              currentSessionId \notin Range(sessions')
         /\ currentSessionId' = Null \/ currentSessionId' \in Range(sessions')]_vars

\* ---- C37
\* the stream up to and including its last newline
CompleteLines(s) ==
    LET parts == SplitLines(s)
    IN  JoinLines(SubSeq(parts, 1, Len(parts) - 1))

\* the part of the stream after its last newline
Unterminated(s) ==
    LET parts == SplitLines(s)
    IN  parts[Len(parts)]

\* C37: when the ExcelSearchPanel decoder has read the stream to its end,
\* what follows the last newline is still in the line buffer, unparsed: the
\* accumulated text - the content handed to finalizeAssistantMessage - the
\* stage and sawDone are those of the stream cut after its last newline, so
\* a final data line without its newline contributes nothing.
C37_UnterminatedLineDiscarded ==
    (mode = "decoder" /\ decKind = "excel" /\ decPc = "ended")
    => LET complete == ExcelDecodeChunk(InitDec, CompleteLines(decWhole))
       IN  /\ dec.text = complete.text
           /\ dec.stage = complete.stage
           /\ dec.sawDone = complete.sawDone
           /\ dec.buffer = Unterminated(decWhole)

\* a content line followed by a content line that lacks its newline: the
\* reading has ended with the text of the first line only and the second
\* line left in the buffer
C37_Witness ==
    /\ mode = "decoder"
    /\ decKind = "excel"
    /\ decWhole = StreamText(<<LineB2, LineHi>>, FALSE)
    /\ decPc = "ended"
    /\ dec.text = " B2"
    /\ dec.buffer = LineHi

\* ---- C38
\* C38: the message list of useDirectMessages never holds two entries with
\* the same id, however the completion of fetchMessages interleaves with
\* the INSERT events of the recipient and of the sender subscription.
C38_DirectMessagesDistinct ==
    mode = "direct" =>
        \A i, j \in DOMAIN dm.messages :
            i # j => dm.messages[i] # dm.messages[j]

====
